---- MODULE Spec2Model ----
(***************************************************************************)
(* Scan orchestration engine of vulnscan-asm (scanner/engine.py):          *)
(* ScanEngine.run_scan, the target guard, the profile resolution and the   *)
(* module loop, modelled as a state machine.                               *)
(* Spec is one run_scan call, SpecContract the same call over modules that *)
(* break the module contract, FairSpec the call under a fair event loop,   *)
(* SpecScore _generate_summary on its own, and SpecWorker several calls    *)
(* side by side as the workers start them.                                 *)
(*                                                                         *)
(* Strings are sequences of tokens: the separators ":" and "/" are tokens  *)
(* of their own, every other token is an atom (a scheme word, a host name, *)
(* a dotted quad, a port number, a path segment).                          *)
(***************************************************************************)
EXTENDS Integers, Sequences, FiniteSets, TLC

VARIABLES
    pc,               \* position of run_scan: idle, running-loop, done, raised
    progress_callback,\* ScanEngine.progress_callback is set (TRUE) or None
    target, profile, opts,     \* arguments of the run_scan call
    module_names,     \* resolved sequence of module names
    total_modules, completed,
    all_assets, all_findings, module_results, all_errors,
    idx,              \* loop index i of enumerate(module_names), 1-based
    invocations,      \* one record per module.run call: name, pos, module_opts
    outcome,          \* pos -> what happened to the module at that position
    progress,         \* calls made to the progress sink: <<percent, message>>
    sink_raised,      \* number of sink calls that raised
    report,           \* the value run_scan returned (a sequence of 0 or 1 report)
    raised,           \* the exception that escaped run_scan (0 or 1 element)
    faults, emitted,  \* how many faults / emitted items the modules produced
    executor_jobs,    \* positions of the modules that have a blocking call
                      \* running in a thread of the loop's default executor
    scans,            \* the run_scan calls of a worker that run side by side:
                      \* call -> its arguments, position and locals
    frames,           \* the accumulators of lines 96-102, by the place they
                      \* are stored in
    worker,           \* the worker process the tasks are sent to: the pub/sub
                      \* listener of redis_worker.py or the Celery worker
    tasks,            \* the tasks of that worker: message, thread position,
                      \* run_scan arguments and the events published for it
    xss,              \* a call of VulnChecker._test_stored_xss: the site, the
                      \* position in its loops, the POSTs made, the findings
    api               \* a call of ApiDiscovery.run

vars == <<pc, progress_callback, target, profile, opts, module_names,
          total_modules, completed, all_assets, all_findings, module_results,
          all_errors, idx, invocations, outcome, progress, sink_raised,
          report, raised, faults, emitted, executor_jobs, scans, frames,
          worker, tasks, xss, api>>

\* the variables of the single run_scan call
engine_vars == <<pc, progress_callback, target, profile, opts, module_names,
                 total_modules, completed, all_assets, all_findings,
                 module_results, all_errors, idx, invocations, outcome,
                 progress, sink_raised, report, raised, faults, emitted,
                 executor_jobs>>

\* the variables of the worker that receives tasks over the message channel
channel_vars == <<worker, tasks>>

\* the variables of the module calls that are followed on their own
module_vars == <<xss, api>>

(***************************************************************************)
(* Bounds of the model.                                                    *)
(***************************************************************************)
\* modules of one scan that raise or time out
MaxFaults == 1
\* assets, findings and module error strings emitted by the modules of one scan
MaxEmit == 2
\* findings in a list handed to _generate_summary on its own
MaxFindings == 16
\* run_scan calls of one worker that run side by side
MaxScans == 2

Range(s) == {s[k] : k \in 1..Len(s)}

RECURSIVE SeqSum(_)
SeqSum(s) == IF s = <<>> THEN 0 ELSE Head(s) + SeqSum(Tail(s))

(***************************************************************************)
(* config.py                                                               *)
(***************************************************************************)
\* ScannerConfig.blocked_cidrs: <<network address, prefix length>>
blocked_cidrs ==
    << <<(<<10, 0, 0, 0>>), 8>>,
       <<(<<172, 16, 0, 0>>), 12>>,
       <<(<<192, 168, 0, 0>>), 16>>,
       <<(<<127, 0, 0, 0>>), 8>>,
       <<(<<169, 254, 0, 0>>), 16>> >>

(***************************************************************************)
(* The environment of the target guard: address literals and the DNS.      *)
(***************************************************************************)
\* ipaddress.ip_address(text): the atoms that parse as an address literal
IpLiterals ==
    [a \in {"10.0.0.5", "172.32.0.1", "93.184.216.34", "192.168.1.10", "127.0.0.1"} |->
        CASE a = "10.0.0.5"      -> <<10, 0, 0, 5>>
          [] a = "172.32.0.1"    -> <<172, 32, 0, 1>>
          [] a = "93.184.216.34" -> <<93, 184, 216, 34>>
          [] a = "192.168.1.10"  -> <<192, 168, 1, 10>>
          [] a = "127.0.0.1"     -> <<127, 0, 0, 1>>]

\* socket.getaddrinfo(hostname, None): the addresses of the names that resolve;
\* a name the idna codec rejects raises UnicodeError, every other name raises
\* socket.gaierror
DnsRecords ==
    [h \in {"intranet.example", "mixed.example", "public.example"} |->
        CASE h = "intranet.example" -> <<"192.168.1.10">>
          [] h = "mixed.example"    -> <<"93.184.216.34", "127.0.0.1">>
          [] h = "public.example"   -> <<"93.184.216.34">>]

\* the names getaddrinfo cannot encode: an empty label, a label of more than
\* 63 characters
IdnaRejected == {"bad..example"}

Pow2(n) == CASE n = 0 -> 1 [] n = 1 -> 2 [] n = 2 -> 4 [] n = 3 -> 8
             [] n = 4 -> 16 [] n = 5 -> 32 [] n = 6 -> 64 [] n = 7 -> 128
             [] n = 8 -> 256

\* `ip in net` of the ipaddress module: the first `prefix` bits of the address
\* equal those of the network address
InNetwork(ip, net) ==
    LET base == net[1]
        full == net[2] \div 8
        rest == net[2] % 8
    IN  /\ \A k \in 1..full : ip[k] = base[k]
        /\ rest # 0 => ip[full + 1] \div Pow2(8 - rest) = base[full + 1] \div Pow2(8 - rest)

\* any(ip in net for net in blocked_networks)
InBlockedNetworks(ip) ==
    \E n \in 1..Len(blocked_cidrs) : InNetwork(ip, blocked_cidrs[n])

StartsWith(s, p) == Len(s) >= Len(p) /\ SubSeq(s, 1, Len(p)) = p

\* str.split(sep)[0]: the part before the first separator
RECURSIVE SplitHead(_, _)
SplitHead(s, sep) ==
    IF s = <<>> \/ Head(s) = sep THEN <<>>
    ELSE <<Head(s)>> \o SplitHead(Tail(s), sep)

HttpsPrefix == <<"https", ":", "/", "/">>
HttpPrefix == <<"http", ":", "/", "/">>

\* hostname of _is_blocked_target: both prefixes are tried in turn, then the
\* text is cut at the first "/" and at the first ":"
StripHostname(t) ==
    LET h1 == IF StartsWith(t, HttpsPrefix) THEN SubSeq(t, 5, Len(t)) ELSE t
        h2 == IF StartsWith(h1, HttpPrefix) THEN SubSeq(h1, 5, Len(h1)) ELSE h1
    IN  SplitHead(SplitHead(h2, "/"), ":")

\* only the first getaddrinfo result is tested
AnyResolvedBlocked_first(addrs) ==
    /\ addrs # <<>>
    /\ Head(addrs) \in DOMAIN IpLiterals
    /\ InBlockedNetworks(IpLiterals[Head(addrs)])

\* for-loop over the getaddrinfo results: TRUE at the first blocked address
RECURSIVE AnyResolvedBlocked(_)
AnyResolvedBlocked(addrs) ==
    IF addrs = <<>> THEN FALSE
    ELSE IF Head(addrs) \in DOMAIN IpLiterals /\ InBlockedNetworks(IpLiterals[Head(addrs)])
         THEN TRUE
         ELSE AnyResolvedBlocked(Tail(addrs))

\* ScanEngine._is_blocked_target
_is_blocked_target(t) ==
    LET hostname == StripHostname(t)
    IN  IF Len(hostname) = 1 /\ hostname[1] \in DOMAIN IpLiterals
        THEN InBlockedNetworks(IpLiterals[hostname[1]])
        ELSE IF Len(hostname) = 1 /\ hostname[1] \in DOMAIN DnsRecords
             THEN AnyResolvedBlocked(DnsRecords[hostname[1]])
             ELSE FALSE

\* lines 369-380: the try statement around getaddrinfo has the one clause
\* `except socket.gaierror`, the UnicodeError of a rejected name leaves
\* _is_blocked_target
GuardRaises(t) ==
    LET hostname == StripHostname(t)
    IN  /\ Len(hostname) = 1
        /\ hostname[1] \notin DOMAIN IpLiterals
        /\ hostname[1] \in IdnaRejected

(***************************************************************************)
(* modules/__init__.py and the profile table of engine.py                  *)
(***************************************************************************)
\* keys of MODULE_REGISTRY
MODULE_REGISTRY ==
    {"port_scanner", "dns_enumerator", "ssl_analyzer", "web_crawler",
     "tech_detector", "vuln_checker", "subdomain_takeover", "admin_detector",
     "nvd_cve_matcher", "waf_detector", "recon_module", "default_creds_checker",
     "api_discovery"}

SCAN_PROFILES ==
    [QUICK |-> <<"dns_enumerator", "ssl_analyzer", "tech_detector">>,
     STANDARD |-> <<"dns_enumerator", "port_scanner", "ssl_analyzer",
                    "web_crawler", "tech_detector", "admin_detector",
                    "recon_module">>,
     DEEP |-> <<"dns_enumerator", "port_scanner", "ssl_analyzer", "web_crawler",
                "tech_detector", "waf_detector", "recon_module", "vuln_checker",
                "subdomain_takeover", "admin_detector", "nvd_cve_matcher",
                "api_discovery", "api_security">>]

\* the tuple of names that run_scan hands discovered_assets to
AssetReceivers ==
    {"vuln_checker", "subdomain_takeover", "nvd_cve_matcher", "admin_detector"}

(***************************************************************************)
(* Options: a dict, modelled as the set of keys present and their values.  *)
(***************************************************************************)
\* dict.get(key, default)
Get(o, key, default) == IF key \in o.keys THEN o[key] ELSE default

\* a name that is no profile, and CUSTOM without a list, select nothing
SelectModules_no_fallback(p, o) ==
    LET Registered(m) == m \in MODULE_REGISTRY
    IN  IF p = "CUSTOM" /\ Get(o, "modules", <<>>) # <<>>
        THEN SelectSeq(o["modules"], Registered)
        ELSE IF p \in DOMAIN SCAN_PROFILES THEN SCAN_PROFILES[p]
             ELSE <<>>

\* the module list of lines 90-94: the CUSTOM list filtered by the registry,
\* or the profile's list, STANDARD for a name that is no profile
SelectModules(p, o) ==
    LET Registered(m) == m \in MODULE_REGISTRY
    IN  IF p = "CUSTOM" /\ Get(o, "modules", <<>>) # <<>>
        THEN SelectSeq(o["modules"], Registered)
        ELSE IF p \in DOMAIN SCAN_PROFILES THEN SCAN_PROFILES[p]
             ELSE SCAN_PROFILES["STANDARD"]

\* exclude_modules is read but never applied
FilterExcluded_off(names, exclude_modules) == names

\* lines 111-114: the exclude_modules filter
FilterExcluded(names, exclude_modules) ==
    LET Kept(m) == m \notin Range(exclude_modules)
    IN  IF exclude_modules # <<>> THEN SelectSeq(names, Kept) ELSE names

(***************************************************************************)
(* Result aggregation and scoring (engine.py 226-331), scores in tenths.   *)
(***************************************************************************)
Severities == {"CRITICAL", "HIGH", "MEDIUM", "LOW", "INFO"}

CATEGORY_CVSS ==
    ("SQL_INJECTION" :> 98) @@ ("COMMAND_INJECTION" :> 98) @@ ("RFI" :> 91)
    @@ ("SSRF" :> 86) @@ ("XSS_STORED" :> 81) @@ ("LFI" :> 75)
    @@ ("PATH_TRAVERSAL" :> 75) @@ ("IDOR" :> 75) @@ ("XSS_REFLECTED" :> 61)
    @@ ("CORS_MISCONFIG" :> 53) @@ ("CSRF" :> 43) @@ ("OPEN_REDIRECT" :> 43)
    @@ ("SSL_TLS" :> 53) @@ ("CERT_ISSUE" :> 48) @@ ("SECURITY_HEADERS" :> 37)
    @@ ("COOKIE_SECURITY" :> 35) @@ ("HTTP_METHODS" :> 31) @@ ("INFO_DISCLOSURE" :> 53)
    @@ ("DIRECTORY_LISTING" :> 53) @@ ("SENSITIVE_FILE" :> 53) @@ ("OUTDATED_SOFTWARE" :> 56)
    @@ ("DEFAULT_CREDENTIALS" :> 98) @@ ("EMAIL_SECURITY" :> 37) @@ ("WAF_DETECTED" :> 0)
    @@ ("OTHER" :> 30)

SEVERITY_CVSS ==
    [CRITICAL |-> 95, HIGH |-> 75, MEDIUM |-> 50, LOW |-> 25, INFO |-> 0]

\* finding.get("severity", "INFO") of lines 236 and 288
SeverityOf(f) == IF "severity" \in DOMAIN f THEN f.severity ELSE "INFO"

\* the severity table is consulted before the category table
_estimate_cvss_severity_first(f) ==
    IF SeverityOf(f) \in DOMAIN SEVERITY_CVSS THEN SEVERITY_CVSS[SeverityOf(f)]
    ELSE IF f.category \in DOMAIN CATEGORY_CVSS THEN CATEGORY_CVSS[f.category]
         ELSE 0

\* ScanEngine._estimate_cvss, in tenths
_estimate_cvss(f) ==
    IF f.category \in DOMAIN CATEGORY_CVSS THEN CATEGORY_CVSS[f.category]
    ELSE IF SeverityOf(f) \in DOMAIN SEVERITY_CVSS THEN SEVERITY_CVSS[SeverityOf(f)]
         ELSE 0

\* the explicit cvssScore is never looked at
FindingScore_estimate(f) == _estimate_cvss(f)

\* lines 245-249: cvssScore of a finding dict is a sequence: empty for None,
\* <<n>> for the number n / 10, anything longer for a value that is no number
FindingScore(f) ==
    IF Len(f.cvssScore) = 1 THEN f.cvssScore[1] ELSE _estimate_cvss(f)

\* round() of the float computed for num / den: the nearest integer; when
\* num / den is exactly half way between two integers the float lies at, just
\* below or just above that point, and `up` tells which of the two it becomes
RoundFloat(num, den, up) ==
    LET q == num \div den
        r == num % den
    IN  IF 2 * r < den THEN q
        ELSE IF 2 * r > den THEN q + 1
        ELSE IF up THEN q + 1 ELSE q

\* the two round() calls of _generate_summary that can meet such a point
Ties == [risk : BOOLEAN, avg : BOOLEAN]

Min(a, b) == IF a < b THEN a ELSE b
Max(a, b) == IF a > b THEN a ELSE b

\* max(cvss_scores)
RECURSIVE SeqMax(_)
SeqMax(s) == IF Len(s) = 1 THEN s[1] ELSE Max(Head(s), SeqMax(Tail(s)))

\* severity_counts[sev] = 1 instead of an increment
SeverityCounts_flag(findings) ==
    [s \in Severities \cup {SeverityOf(findings[k]) : k \in 1..Len(findings)} |->
        IF \E k \in 1..Len(findings) : SeverityOf(findings[k]) = s THEN 1 ELSE 0]

\* severity_counts of lines 228-237: the five keys at 0, then for every
\* finding severity_counts[sev] = severity_counts.get(sev, 0) + 1, which adds
\* the key sev when it is none of the five
SeverityCounts(findings) ==
    [s \in Severities \cup {SeverityOf(findings[k]) : k \in 1..Len(findings)} |->
        Cardinality({k \in 1..Len(findings) : SeverityOf(findings[k]) = s})]

\* lines 243-249: cvss_scores
CvssScores(findings) == [k \in 1..Len(findings) |-> FindingScore(findings[k])]

\* the amplification by count is capped at two
RiskFraction_cap2(findings) ==
    LET n == Len(findings)
        sum == SeqSum(CvssScores(findings))
    IN  IF n = 0 THEN <<0, 1>>
        ELSE IF n <= 5 THEN <<sum, n>>
        ELSE IF n < 10 THEN <<sum * n, n * 5>>
        ELSE <<sum * 2, n>>

\* lines 252-255: avg_cvss * 10 * max(count_factor, 1.0) as the fraction
\* <<num, den>>, with count_factor = min(total / 5, 3.0)
RiskFraction(findings) ==
    LET n == Len(findings)
        sum == SeqSum(CvssScores(findings))
    IN  IF n = 0 THEN <<0, 1>>
        ELSE IF n <= 5 THEN <<sum, n>>
        ELSE IF n < 15 THEN <<sum * n, n * 5>>
        ELSE <<sum * 3, n>>

\* lines 261-267: cvss_distribution
CvssDistribution(scores) ==
    LET I == 1..Len(scores)
    IN  [critical_9_10 |-> Cardinality({k \in I : scores[k] >= 90}),
         high_7_9 |-> Cardinality({k \in I : 70 <= scores[k] /\ scores[k] < 90}),
         medium_4_7 |-> Cardinality({k \in I : 40 <= scores[k] /\ scores[k] < 70}),
         low_0_4 |-> Cardinality({k \in I : 1 <= scores[k] /\ scores[k] < 40}),
         info |-> Cardinality({k \in I : scores[k] < 1})]

\* ScanEngine._generate_summary; avg_cvss and max_cvss in tenths
_generate_summary(findings, ties) ==
    LET scores == CvssScores(findings)
        frac == RiskFraction(findings)
        risk_score == Min(100, RoundFloat(frac[1], frac[2], ties.risk))
    IN  [total_findings |-> Len(findings),
         severity_counts |-> SeverityCounts(findings),
         risk_score |-> risk_score,
         security_score |-> Max(0, 100 - risk_score),
         avg_cvss |-> RoundFloat(SeqSum(scores), Max(Len(scores), 1), ties.avg),
         max_cvss |-> IF scores = <<>> THEN 0 ELSE SeqMax(scores),
         cvss_distribution |-> CvssDistribution(scores)]

(***************************************************************************)
(* The run_scan calls the model makes.                                     *)
(***************************************************************************)
NoOptions == [keys |-> {}]

Hosts ==
    {"10.0.0.5", "172.32.0.1", "93.184.216.34", "intranet.example",
     "mixed.example", "public.example", "nxdomain.example", "bad..example"}

\* a target text: [scheme://]host[:port][/path]; the scheme of a URL may be
\* written in either case
Render(scheme, host, port, path) == scheme \o <<host>> \o port \o path

Targets ==
    {Render(<<>>, h, <<>>, <<>>) : h \in Hosts}
    \cup {Render(HttpPrefix, h, <<>>, <<"/">>) : h \in Hosts}
    \cup {Render(HttpsPrefix, h, <<":", "443">>, <<"/", "app">>) : h \in Hosts}
    \cup {HttpsPrefix \o HttpPrefix \o <<"10.0.0.5">>}
    \cup {Render(<<"HTTP", ":", "/", "/">>, "10.0.0.5", <<>>, <<"/">>)}

ScanTarget == Render(HttpsPrefix, "public.example", <<":", "443">>, <<"/", "app">>)

ExcludeSome ==
    [keys |-> {"exclude_modules"},
     exclude_modules |-> <<"port_scanner", "ssl_analyzer", "ghost_module">>]

ExcludeMost ==
    [keys |-> {"exclude_modules", "exclude_paths"},
     exclude_modules |-> <<"web_crawler", "tech_detector", "recon_module",
                           "dns_enumerator", "port_scanner", "ssl_analyzer",
                           "waf_detector", "subdomain_takeover",
                           "nvd_cve_matcher">>,
     exclude_paths |-> <<"/logout">>]

CustomMixed ==
    [keys |-> {"modules"},
     modules |-> <<"web_crawler", "default_creds_checker", "ghost_module",
                   "admin_detector">>]

CustomRepeated ==
    [keys |-> {"modules", "exclude_modules"},
     modules |-> <<"tech_detector", "nvd_cve_matcher", "port_scanner",
                   "tech_detector">>,
     exclude_modules |-> <<"port_scanner">>]

CustomUnknown == [keys |-> {"modules"}, modules |-> <<"ghost_module">>]

CustomEmpty ==
    [keys |-> {"modules", "exclude_modules"}, modules |-> <<>>,
     exclude_modules |-> <<"dns_enumerator", "port_scanner", "ssl_analyzer",
                           "recon_module">>]

CustomOne == [keys |-> {"modules"}, modules |-> <<"tech_detector">>]

\* options that hold a map of their own for two modules
CustomTuned ==
    [keys |-> {"modules", "exclude_paths", "tech_detector", "admin_detector"},
     modules |-> <<"tech_detector", "admin_detector">>,
     exclude_paths |-> <<"/logout">>,
     tech_detector |-> [keys |-> {"depth"}, depth |-> 1],
     admin_detector |-> [keys |-> {"wordlist", "exclude_paths"},
                         wordlist |-> "small", exclude_paths |-> <<"/static">>]]

\* every target with a one-module list, and one target under the profiles
\* and option sets above
Requests ==
    {[target |-> t, profile |-> "CUSTOM", options |-> CustomOne] : t \in Targets}
    \cup {[target |-> ScanTarget, profile |-> "QUICK", options |-> o] :
            o \in {NoOptions, CustomMixed}}
    \cup {[target |-> ScanTarget, profile |-> "STANDARD", options |-> ExcludeSome]}
    \cup {[target |-> ScanTarget, profile |-> p, options |-> ExcludeMost] :
            p \in {"DEEP", "CUSTOM"}}
    \cup {[target |-> ScanTarget, profile |-> "FULL", options |-> CustomEmpty]}
    \cup {[target |-> ScanTarget, profile |-> "CUSTOM", options |-> o] :
            o \in {CustomMixed, CustomRepeated, CustomUnknown, CustomEmpty,
                   CustomTuned}}

(***************************************************************************)
(* What a module can return.                                               *)
(***************************************************************************)
\* the asset a module emits; metadata records the position of the emitter
MkAsset(name, pos) ==
    [type |-> "ENDPOINT", value |-> name, metadata |-> [emitted_at |-> pos]]

FindingKinds ==
    { [severity |-> "HIGH", category |-> "XSS_STORED", cvss_score |-> <<>>],
      [severity |-> "MEDIUM", category |-> "OTHER", cvss_score |-> <<50>>] }

MkFinding(name, pos, kind) ==
    [title |-> name, severity |-> kind.severity, category |-> kind.category,
     cvss_score |-> kind.cvss_score, metadata |-> [emitted_at |-> pos]]

\* a ModuleResult of the module `name` run at position `pos`
ModuleResults(name, pos) ==
    {[module_name |-> name, assets |-> a, findings |-> f, errors |-> e] :
        a \in {<<>>, <<MkAsset(name, pos)>>},
        f \in {<<>>} \cup {<<MkFinding(name, pos, k)>> : k \in FindingKinds},
        e \in {<<>>, << <<name, ": request failed">> >>}}

ResultSize(r) == Len(r.assets) + Len(r.findings) + Len(r.errors)

\* lines 154-160: the dict made of an Asset
AssetDict(a) == [type |-> a.type, value |-> a.value, metadata |-> a.metadata]

\* lines 162-176: the dict made of a Finding
FindingDict(f) ==
    [title |-> f.title, severity |-> f.severity, category |-> f.category,
     cvssScore |-> f.cvss_score, metadata |-> f.metadata]

\* the loop of lines 154-160 over result.assets
AssetDicts(assets) == [k \in 1..Len(assets) |-> AssetDict(assets[k])]

\* the loop of lines 162-176 over result.findings
FindingDicts(findings) == [k \in 1..Len(findings) |-> FindingDict(findings[k])]

(***************************************************************************)
(* ScanEngine.run_scan                                                     *)
(***************************************************************************)
NoModuleResults == [n \in {} |-> 0]

\* lines 77-88: the report of a blocked target
BlockedReport(t, p) ==
    [target |-> t, profile |-> p, modules_completed |-> 0, modules_total |-> 0,
     assets |-> <<>>, findings |-> <<>>, module_results |-> NoModuleResults,
     errors |-> << <<"Target '">> \o t \o <<"' resolves to a blocked/private IP range.">> >>,
     summary |-> [total_findings |-> 0, severity_counts |-> NoModuleResults,
                  risk_score |-> 0, security_score |-> 100]]

\* lines 213-224: the report of a scan that ran
ScanReport(ties) ==
    [target |-> target, profile |-> profile, modules_completed |-> completed,
     modules_total |-> total_modules, assets |-> all_assets,
     findings |-> all_findings, module_results |-> module_results,
     errors |-> all_errors, summary |-> _generate_summary(all_findings, ties)]

\* the percentage of the modules done once the one at index i is
Percent_one_based(i, total) == ((i + 1) * 100) \div total

\* int((i / total_modules) * 100) for the 0-based index i; the float product
\* truncates to this quotient for every total below 50
Percent(i, total) == (i * 100) \div total

\* lines 131-146: the keys run_scan writes into module_opts; the value of
\* discovered_assets is the all_assets list itself, not a copy
ModuleOptKeys(name) ==
    (IF name \in AssetReceivers THEN {"discovered_assets"} ELSE {})
    \cup {k \in {"exclude_paths", "exclude_subdomains", "exclude_ports",
                 "exclusion_rules"} : Get(opts, k, <<>>) # <<>>}

\* lines 132-146: module_opts is opts.get(module_name, {}), the map held by
\* opts itself when opts has one under the name of the module and a new map
\* otherwise, after the writes; discovered_assets refers to the list
\* all_assets, the exclusion keys to the lists of opts
ModuleOpts(name) ==
    LET sub == Get(opts, name, NoOptions)
        written == ModuleOptKeys(name)
    IN  [k \in DOMAIN sub \cup written |->
            IF k = "keys" THEN sub.keys \cup written
            ELSE IF k \notin written THEN sub[k]
            ELSE IF k = "discovered_assets" THEN [ref |-> "all_assets"]
            ELSE opts[k]]

\* opts after module_opts was written: the map under the name of the module
\* is module_opts
OptsAfterWrites(name) ==
    IF name \in opts.keys THEN [opts EXCEPT ![name] = ModuleOpts(name)] ELSE opts

\* ScanEngine._report_progress: the sink is called when set, and what it
\* raises is swallowed
_report_progress(percent, message, sink_raises) ==
    IF progress_callback
    THEN /\ progress' = Append(progress, <<percent, message>>)
         /\ sink_raised' = (sink_raised \/ sink_raises)
    ELSE UNCHANGED <<progress, sink_raised>>

scan_args == <<target, profile, opts, module_names, total_modules>>
aggregate == <<completed, all_assets, all_findings, module_results, all_errors>>

\* _report_progress without its try/except
SinkErrorEscapes_unguarded(sink_raises) == sink_raises

\* the try/except of _report_progress: does what the sink raised leave it
SinkErrorEscapes(sink_raises) == FALSE

\* the except clauses around the loop instead of inside it: the first error
\* ends the loop
NextAfterExcept_abort == Len(module_names) + 1

\* lines 193-200: an except clause ends the iteration, the loop goes on with
\* the next module
NextAfterExcept == idx + 1

\* a timeout that is logged but not recorded
TimeoutErrors_silent(name) == <<>>

\* lines 194-195: the strings the TimeoutError clause appends to all_errors
TimeoutErrors(name) == << <<"Module ", name, " timed out">> >>

\* lines 198-199: the strings the Exception clause appends to all_errors
FailureErrors(name, e) == << <<"Module ", name, " failed: ", e.message>> >>

\* what a module did at its position, for the properties
Pending == [status |-> "PENDING"]

\* lines 69-114: the guard, the module list and the empty accumulators; what
\* the guard raises at line 75 leaves run_scan
RunScan(req) ==
    /\ pc = "idle"
    /\ target' = req.target
    /\ profile' = req.profile
    /\ opts' = req.options
    /\ IF GuardRaises(req.target)
       THEN /\ raised' = <<[class |-> "UnicodeError", from |-> "_is_blocked_target"]>>
            /\ pc' = "raised"
            /\ UNCHANGED <<module_names, total_modules, outcome, report>>
       ELSE IF _is_blocked_target(req.target)
       THEN /\ report' = <<BlockedReport(req.target, req.profile)>>
            /\ pc' = "done"
            /\ UNCHANGED <<module_names, total_modules, outcome, raised>>
       ELSE /\ module_names' =
                 FilterExcluded(SelectModules(req.profile, req.options),
                                Get(req.options, "exclude_modules", <<>>))
            /\ total_modules' = Len(module_names')
            /\ outcome' = [k \in 1..Len(module_names') |-> Pending]
            /\ pc' = "loop"
            /\ UNCHANGED <<report, raised>>
    /\ UNCHANGED <<progress_callback, aggregate, idx, invocations, progress,
                   sink_raised, faults, emitted,
                   executor_jobs, scans, frames, channel_vars, module_vars>>

\* lines 117-120: a name that is not in the registry is skipped
SkipUnknown ==
    /\ pc = "loop"
    /\ idx <= Len(module_names)
    /\ module_names[idx] \notin MODULE_REGISTRY
    /\ idx' = idx + 1
    /\ outcome' = [outcome EXCEPT ![idx] = [status |-> "UNKNOWN"]]
    /\ UNCHANGED <<pc, progress_callback, scan_args, aggregate, invocations,
                   progress, sink_raised, report, raised, faults, emitted,
                   executor_jobs, scans, frames, channel_vars, module_vars>>

\* lines 122-151: the module is instantiated, the progress event is sent,
\* module_opts is built and module.run is awaited under wait_for
BeginModule ==
    /\ pc = "loop"
    /\ idx <= Len(module_names)
    /\ module_names[idx] \in MODULE_REGISTRY
    /\ \E sink_raises \in {FALSE, progress_callback} :
          /\ _report_progress(Percent(idx - 1, total_modules),
                              <<"Running ", module_names[idx], "...">>, sink_raises)
          /\ IF SinkErrorEscapes(sink_raises)
             THEN /\ raised' = <<[class |-> "SinkError", from |-> "progress_callback"]>>
                  /\ pc' = "raised"
                  /\ UNCHANGED <<invocations, outcome, opts>>
             ELSE /\ invocations' =
                       Append(invocations,
                              [name |-> module_names[idx], pos |-> idx,
                               module_opts |-> ModuleOpts(module_names[idx]).keys,
                               assets_at_call |-> Len(all_assets)])
                  /\ opts' = OptsAfterWrites(module_names[idx])
                  /\ outcome' = [outcome EXCEPT ![idx] = [status |-> "RUNNING"]]
                  /\ pc' = "running"
                  /\ UNCHANGED raised
    /\ UNCHANGED <<progress_callback, target, profile, module_names,
                   total_modules, aggregate, idx, report,
                   faults, emitted,
                   executor_jobs, scans, frames, channel_vars, module_vars>>

\* lines 153-191: module.run returned `result` in time
ModuleReturns ==
    /\ pc = "running"
    /\ \E result \in ModuleResults(module_names[idx], idx) :
          /\ emitted + ResultSize(result) <= MaxEmit
          /\ emitted' = emitted + ResultSize(result)
          /\ all_assets' = all_assets \o AssetDicts(result.assets)
          /\ all_findings' = all_findings \o FindingDicts(result.findings)
          /\ module_results' =
                (module_names[idx] :>
                    [assets |-> Len(result.assets),
                     findings |-> Len(result.findings),
                     errors |-> result.errors]) @@ module_results
          /\ all_errors' = all_errors \o result.errors
          /\ outcome' = [outcome EXCEPT
                            ![idx] = [status |-> "RETURNED", result |-> result]]
    /\ completed' = completed + 1
    /\ idx' = idx + 1
    /\ pc' = "loop"
    /\ UNCHANGED <<progress_callback, scan_args, invocations, progress,
                   sink_raised, report, raised, faults,
                   executor_jobs, scans, frames, channel_vars, module_vars>>

\* the modules whose run awaits loop.run_in_executor(None, <blocking call>)
ExecutorModules ==
    {"port_scanner", "ssl_analyzer", "dns_enumerator", "recon_module",
     "subdomain_takeover"}

\* lines 148-151, 193-196: wait_for gave up on module.run after
\* config.scan_timeout and cancelled it; a blocking call the module had handed
\* to the executor cannot be cancelled and goes on in its thread
ModuleTimesOut ==
    /\ pc = "running"
    /\ faults < MaxFaults
    /\ faults' = faults + 1
    /\ \E in_executor \in {FALSE, module_names[idx] \in ExecutorModules} :
          executor_jobs' = IF in_executor THEN executor_jobs \cup {idx}
                           ELSE executor_jobs
    /\ all_errors' = all_errors \o TimeoutErrors(module_names[idx])
    /\ outcome' = [outcome EXCEPT ![idx] = [status |-> "TIMED_OUT"]]
    /\ idx' = NextAfterExcept
    /\ pc' = "loop"
    /\ UNCHANGED <<progress_callback, scan_args, completed, all_assets,
                   all_findings, module_results, invocations, progress,
                   sink_raised, report, raised, emitted, scans, frames, channel_vars, module_vars>>

\* the exceptions a module's run raises: class and message
ModuleExceptions ==
    { [class |-> "RuntimeError", message |-> "connection reset"],
      [class |-> "asyncio.TimeoutError", message |-> ""] }

\* lines 193-200: the except clause that handles the exception e, by class
ExceptErrors(name, e) ==
    IF e.class = "asyncio.TimeoutError" THEN TimeoutErrors(name)
    ELSE FailureErrors(name, e)

\* lines 193-200: module.run raised; the first matching except clause runs
ModuleRaises ==
    /\ pc = "running"
    /\ faults < MaxFaults
    /\ faults' = faults + 1
    /\ \E e \in ModuleExceptions :
          /\ all_errors' = all_errors \o ExceptErrors(module_names[idx], e)
          /\ outcome' = [outcome EXCEPT
                            ![idx] = [status |-> "RAISED", exception |-> e]]
    /\ idx' = NextAfterExcept
    /\ pc' = "loop"
    /\ UNCHANGED <<progress_callback, scan_args, completed, all_assets,
                   all_findings, module_results, invocations, progress,
                   sink_raised, report, raised, emitted,
                   executor_jobs, scans, frames, channel_vars, module_vars>>

\* the blocking call of a cancelled module returns in its executor thread
ExecutorJobEnds ==
    /\ \E k \in executor_jobs : executor_jobs' = executor_jobs \ {k}
    /\ UNCHANGED <<pc, progress_callback, scan_args, aggregate, idx,
                   invocations, outcome, progress, sink_raised, report, raised,
                   faults, emitted, scans, frames, channel_vars, module_vars>>

\* lines 202-224: the final progress event and the report
FinishScan ==
    /\ pc = "loop"
    /\ idx > Len(module_names)
    /\ \E sink_raises \in {FALSE, progress_callback}, ties \in Ties :
          /\ _report_progress(100, <<"Scan completed">>, sink_raises)
          /\ IF SinkErrorEscapes(sink_raises)
             THEN /\ raised' = <<[class |-> "SinkError", from |-> "progress_callback"]>>
                  /\ pc' = "raised"
                  /\ UNCHANGED report
             ELSE /\ report' = <<ScanReport(ties)>>
                  /\ pc' = "done"
                  /\ UNCHANGED raised
    /\ UNCHANGED <<progress_callback, scan_args, aggregate, idx, invocations,
                   outcome, faults, emitted,
                   executor_jobs, scans, frames, channel_vars, module_vars>>

(***************************************************************************)
(* Modules that break the module contract: any BaseModule subclass a       *)
(* registry entry can name.                                                *)
(***************************************************************************)
\* lines 122-127: module_cls(), module.name or module.description raises;
\* the three are evaluated before the try statement
ModuleSetupRaises ==
    /\ pc = "loop"
    /\ idx <= Len(module_names)
    /\ module_names[idx] \in MODULE_REGISTRY
    /\ \E where \in {"__init__", "name", "description"} :
          raised' = <<[class |-> "RuntimeError", from |-> where]>>
    /\ outcome' = [outcome EXCEPT ![idx] = [status |-> "SETUP_RAISED"]]
    /\ pc' = "raised"
    /\ UNCHANGED <<progress_callback, scan_args, aggregate, idx, invocations,
                   progress, sink_raised, report, faults, emitted,
                   executor_jobs, scans, frames, channel_vars, module_vars>>

\* how far lines 153-184 get with a return value that is no well-formed
\* ModuleResult: not at all (no assets attribute), past the assets (a finding
\* whose severity is no enum member), or up to all_errors.extend (errors is
\* no list)
MalformedKinds == {"no_assets", "bad_finding", "bad_errors"}

\* lines 153-200: module.run returned a malformed value; the exception the
\* collection code raises is handled by the Exception clause
ModuleReturnsMalformed ==
    /\ pc = "running"
    /\ faults < MaxFaults
    /\ faults' = faults + 1
    /\ \E kind \in MalformedKinds, result \in ModuleResults(module_names[idx], idx) :
          LET e == [class |-> IF kind = "bad_errors" THEN "TypeError"
                              ELSE "AttributeError",
                    message |-> kind]
          IN
          /\ emitted + ResultSize(result) <= MaxEmit
          /\ kind = "no_assets" => ResultSize(result) = 0
          /\ kind = "bad_finding" => result.findings = <<>> /\ result.errors = <<>>
          /\ kind = "bad_errors" => result.errors = <<>>
          /\ emitted' = emitted + ResultSize(result)
          /\ all_assets' = all_assets \o AssetDicts(result.assets)
          /\ all_findings' = all_findings \o FindingDicts(result.findings)
          /\ module_results' =
                IF kind = "bad_errors"
                THEN (module_names[idx] :>
                        [assets |-> Len(result.assets),
                         findings |-> Len(result.findings),
                         errors |-> <<>>]) @@ module_results
                ELSE module_results
          /\ all_errors' = all_errors \o FailureErrors(module_names[idx], e)
          /\ outcome' = [outcome EXCEPT
                            ![idx] = [status |-> "MALFORMED", kind |-> kind,
                                      result |-> result]]
    /\ idx' = NextAfterExcept
    /\ pc' = "loop"
    /\ UNCHANGED <<progress_callback, scan_args, completed, invocations,
                   progress, sink_raised, report, raised,
                   executor_jobs, scans, frames, channel_vars, module_vars>>

(***************************************************************************)
(* Several run_scan calls side by side: one thread, engine and event loop  *)
(* per task (redis_worker.py 64-105), or coroutines of one loop. The steps *)
(* are the statements of run_scan that read or write the accumulators; in  *)
(* threads they interleave statement by statement.                         *)
(***************************************************************************)
ScanIds == 1..MaxScans

\* the tasks a worker is sent: a blocked target and a two-module scan
WorkerRequests ==
    { [target |-> Render(<<>>, "intranet.example", <<>>, <<>>),
       profile |-> "QUICK", options |-> NoOptions],
      [target |-> ScanTarget, profile |-> "CUSTOM",
       options |-> [keys |-> {"modules"},
                    modules |-> <<"web_crawler", "admin_detector">>]] }

\* what a module of such a scan returns: nothing, or one asset, one finding
\* and one error string
WorkerResults(name, pos) ==
    {r \in ModuleResults(name, pos) :
        \/ ResultSize(r) = 0
        \/ /\ ResultSize(r) = 3
           /\ r.findings[1].severity = "HIGH"}

\* lines 96-102: completed = 0 and the four empty collections
EmptyFrame ==
    [completed |-> 0, all_assets |-> <<>>, all_findings |-> <<>>,
     module_results |-> NoModuleResults, all_errors |-> <<>>]

\* a task that was received and whose run_scan has not started; `beside`
\* tells whether another call was under way while this one was
Queued ==
    [pc |-> "queued", request |-> <<>>, module_names |-> <<>>, i |-> 1,
     result |-> <<>>, produced |-> <<>>, report |-> <<>>, beside |-> FALSE]

\* the calls that are under way
UnderWay == {t \in ScanIds : scans[t].pc \notin {"queued", "done"}}

\* the call s starts with the fields `started`: it and the calls under way
\* now run side by side
StartBeside(s, started) ==
    [t \in ScanIds |->
        IF t = s THEN [started EXCEPT !.beside = (UnderWay # {})]
        ELSE IF t \in UnderWay THEN [scans[t] EXCEPT !.beside = TRUE]
        ELSE scans[t]]

\* one set of accumulators for all the calls (module globals, or attributes of
\* a shared object)
AccumulatorOf_shared(s) == 1

\* lines 96-102: the accumulators are local variables of run_scan, so every
\* call has a set of its own
AccumulatorOf(s) == s

\* lines 69-114 of the call s
WorkerRunScan(s) ==
    /\ scans[s].pc = "queued"
    /\ \E req \in WorkerRequests :
          IF _is_blocked_target(req.target)
          THEN /\ scans' = [scans EXCEPT ![s].pc = "done", ![s].request = <<req>>,
                               ![s].report = <<BlockedReport(req.target, req.profile)>>]
               /\ UNCHANGED frames
          ELSE /\ scans' = StartBeside(s,
                              [scans[s] EXCEPT !.pc = "loop", !.request = <<req>>,
                                  !.module_names =
                                     FilterExcluded(SelectModules(req.profile, req.options),
                                                    Get(req.options, "exclude_modules", <<>>))])
               /\ frames' = [frames EXCEPT ![AccumulatorOf(s)] = EmptyFrame]
    /\ UNCHANGED <<engine_vars, channel_vars, module_vars>>

\* lines 116-151 of the call s: the next name is skipped, or its module is
\* started and awaited
WorkerBeginModule(s) ==
    /\ scans[s].pc = "loop"
    /\ scans[s].i <= Len(scans[s].module_names)
    /\ scans' = IF scans[s].module_names[scans[s].i] \in MODULE_REGISTRY
                THEN [scans EXCEPT ![s].pc = "awaiting"]
                ELSE [scans EXCEPT ![s].i = @ + 1]
    /\ UNCHANGED <<engine_vars, frames, channel_vars, module_vars>>

\* line 148 of the call s: module.run returned
WorkerModuleReturns(s) ==
    /\ scans[s].pc = "awaiting"
    /\ \E r \in WorkerResults(scans[s].module_names[scans[s].i], scans[s].i) :
          scans' = [scans EXCEPT ![s].pc = "collect_assets", ![s].result = <<r>>,
                       ![s].produced = Append(@, [status |-> "RETURNED", result |-> r])]
    /\ UNCHANGED <<engine_vars, frames, channel_vars, module_vars>>

\* lines 154-160 of the call s
WorkerCollectAssets(s) ==
    /\ scans[s].pc = "collect_assets"
    /\ frames' = [frames EXCEPT ![AccumulatorOf(s)].all_assets =
                     @ \o AssetDicts(scans[s].result[1].assets)]
    /\ scans' = [scans EXCEPT ![s].pc = "collect_findings"]
    /\ UNCHANGED <<engine_vars, channel_vars, module_vars>>

\* lines 162-176 of the call s
WorkerCollectFindings(s) ==
    /\ scans[s].pc = "collect_findings"
    /\ frames' = [frames EXCEPT ![AccumulatorOf(s)].all_findings =
                     @ \o FindingDicts(scans[s].result[1].findings)]
    /\ scans' = [scans EXCEPT ![s].pc = "collect_rest"]
    /\ UNCHANGED <<engine_vars, channel_vars, module_vars>>

\* lines 178-186 of the call s
WorkerCollectRest(s) ==
    /\ scans[s].pc = "collect_rest"
    /\ LET r == scans[s].result[1]
           name == scans[s].module_names[scans[s].i]
       IN  frames' = [frames EXCEPT
                         ![AccumulatorOf(s)].module_results =
                            (name :> [assets |-> Len(r.assets),
                                      findings |-> Len(r.findings),
                                      errors |-> r.errors]) @@ @,
                         ![AccumulatorOf(s)].all_errors = @ \o r.errors,
                         ![AccumulatorOf(s)].completed = @ + 1]
    /\ scans' = [scans EXCEPT ![s].pc = "loop", ![s].i = @ + 1, ![s].result = <<>>]
    /\ UNCHANGED <<engine_vars, channel_vars, module_vars>>

\* lines 197-200 of the call s: the module raised e
WorkerModuleFails(s) ==
    /\ scans[s].pc = "awaiting"
    /\ \E e \in {x \in ModuleExceptions : x.class = "RuntimeError"} :
          LET errors == ExceptErrors(scans[s].module_names[scans[s].i], e)
          IN  /\ frames' = [frames EXCEPT ![AccumulatorOf(s)].all_errors = @ \o errors]
              /\ scans' = [scans EXCEPT ![s].pc = "loop", ![s].i = @ + 1,
                              ![s].produced = Append(@, [status |-> "FAILED",
                                                         errors |-> errors])]
    /\ UNCHANGED <<engine_vars, channel_vars, module_vars>>

\* lines 213-224 of the call s
WorkerFinishScan(s) ==
    /\ scans[s].pc = "loop"
    /\ scans[s].i > Len(scans[s].module_names)
    /\ \E ties \in Ties :
          LET f == frames[AccumulatorOf(s)]
              req == scans[s].request[1]
          IN  scans' = [scans EXCEPT ![s].pc = "done", ![s].report =
                  <<[target |-> req.target, profile |-> req.profile,
                     modules_completed |-> f.completed,
                     modules_total |-> Len(scans[s].module_names),
                     assets |-> f.all_assets, findings |-> f.all_findings,
                     module_results |-> f.module_results, errors |-> f.all_errors,
                     summary |-> _generate_summary(f.all_findings, ties)]>>]
    /\ UNCHANGED <<engine_vars, frames, channel_vars, module_vars>>

(***************************************************************************)
(* The workers that take tasks from the message channel: the pub/sub       *)
(* listener (redis_worker.py), which starts a thread per task, and the     *)
(* Celery task (worker.py), which the Celery pool runs. Here run_scan is   *)
(* followed through its guard, its module list and its progress events;    *)
(* what a module returns does not change the events.                       *)
(***************************************************************************)
\* ScannerConfig.max_concurrent_scans as MAX_CONCURRENT_SCANS sets it (5 when
\* it is unset)
max_concurrent_scans == 1

WorkerKinds == {"redis", "celery"}

\* the task messages with the scanId `id` the channel delivers: with and
\* without options, for a blocked target, for a target the guard raises on,
\* without a profile, without a target, without a scanId
TaskMessages(id) ==
    { [keys |-> {"scanId", "target", "profile"}, scanId |-> id,
       target |-> Render(<<>>, "public.example", <<>>, <<>>), profile |-> "QUICK"],
      [keys |-> {"scanId", "target", "profile", "options"}, scanId |-> id,
       target |-> ScanTarget, profile |-> "CUSTOM", options |-> CustomOne],
      [keys |-> {"scanId", "target"}, scanId |-> id,
       target |-> Render(HttpPrefix, "intranet.example", <<>>, <<"/">>)],
      [keys |-> {"scanId", "target", "profile"}, scanId |-> id,
       target |-> Render(<<>>, "bad..example", <<>>, <<>>), profile |-> "QUICK"],
      [keys |-> {"scanId", "profile"}, scanId |-> id, profile |-> "QUICK"],
      [keys |-> {"target", "options"}, target |-> ScanTarget, options |-> CustomOne] }

\* a task that was not delivered yet
Unsent ==
    [pc |-> "unsent", message |-> <<>>, call |-> <<>>, module_names |-> <<>>,
     i |-> 1, published |-> <<>>]

\* the tasks whose scan is executing
Executing == {s \in ScanIds : tasks[s].pc \in {"started", "loop"}}

\* redis_worker.py 65-70: a thread is started for every task, the listener
\* reads no limit; worker.py 31: the pool of the Celery worker runs at most
\* worker_concurrency = config.max_concurrent_scans tasks at a time
PoolHasRoom(kind) ==
    kind = "celery" => Cardinality(Executing) < max_concurrent_scans

\* redis_worker.py 66-67, 102: the thread gets (scan_id, target, profile) and
\* calls run_scan(target, profile), where opts becomes {}; worker.py 82:
\* run_scan(target, profile, options)
CallOptions(kind, msg) ==
    IF kind = "celery" THEN Get(msg, "options", NoOptions) ELSE NoOptions

\* redis_worker.py 84-93 and worker.py 61-68: the progress_callback
ProgressEvent(kind, id, percent, message) ==
    IF kind = "redis"
    THEN [channel |-> <<"scanner:results">>,
          payload |-> [scanId |-> id, status |-> "PROGRESS", progress |-> percent,
                       message |-> message, currentModule |-> message]]
    ELSE [channel |-> <<"scan:progress:", id>>,
          payload |-> [scanId |-> id, progress |-> percent, message |-> message]]

\* redis_worker.py 108-115 and worker.py 88-93
CompletedEvent(kind, id) ==
    IF kind = "redis"
    THEN [channel |-> <<"scanner:results">>,
          payload |-> [scanId |-> id, status |-> "COMPLETED",
                       fields |-> {"assets", "findings", "summary"}]]
    ELSE [channel |-> <<"scan:completed:", id>>,
          payload |-> [scanId |-> id, status |-> "COMPLETED", fields |-> {"result"}]]

\* redis_worker.py 126-131 and worker.py 107-112
FailedEvent(kind, id, error) ==
    IF kind = "redis"
    THEN [channel |-> <<"scanner:results">>,
          payload |-> [scanId |-> id, status |-> "FAILED", error |-> error]]
    ELSE [channel |-> <<"scan:failed:", id>>,
          payload |-> [scanId |-> id, status |-> "FAILED", error |-> error]]

\* the completion is published before the payload is known to be sendable
CompletionEvents_both(kind, id, serialisable) ==
    IF serialisable THEN <<CompletedEvent(kind, id)>>
    ELSE <<CompletedEvent(kind, id), FailedEvent(kind, id, "TypeError")>>

\* redis_worker.py 107-131 and worker.py 87-112, after run_scan returned:
\* json.dumps of the result and the publish are inside the try statement, so
\* a result json cannot encode ends in the except clause
CompletionEvents(kind, id, serialisable) ==
    IF serialisable THEN <<CompletedEvent(kind, id)>>
    ELSE <<FailedEvent(kind, id, "TypeError")>>

\* redis_worker.py 44-75: one message of the channel is handled; worker.py
\* 41-48: Celery binds the arguments of a task message and calls the task
ReceiveTask(s) ==
    /\ tasks[s].pc = "unsent"
    /\ \E msg \in TaskMessages(s) :
          IF {"scanId", "target"} \subseteq msg.keys
          THEN /\ PoolHasRoom(worker)
               /\ tasks' = [tasks EXCEPT ![s] =
                     [@ EXCEPT !.pc = "started", !.message = <<msg>>,
                               !.call = <<[target |-> msg.target,
                                           profile |-> Get(msg, "profile", "STANDARD"),
                                           options |-> CallOptions(worker, msg)]>>]]
          ELSE tasks' = [tasks EXCEPT ![s] =
                     [@ EXCEPT !.pc = "dropped", !.message = <<msg>>]]
    /\ UNCHANGED <<engine_vars, scans, frames, worker, module_vars>>

\* redis_worker.py 95-103 (worker.py 75-83) and lines 69-114 of run_scan
TaskRunScan(s) ==
    /\ tasks[s].pc = "started"
    /\ LET c == tasks[s].call[1]
           id == tasks[s].message[1].scanId
       IN  IF GuardRaises(c.target)
           THEN tasks' = [tasks EXCEPT ![s] =
                   [@ EXCEPT !.pc = "ended",
                             !.published = Append(@, FailedEvent(worker, id, "UnicodeError"))]]
           ELSE IF _is_blocked_target(c.target)
           THEN tasks' = [tasks EXCEPT ![s] =
                   [@ EXCEPT !.pc = "ended",
                             !.published = @ \o CompletionEvents(worker, id, TRUE)]]
           ELSE tasks' = [tasks EXCEPT ![s] =
                   [@ EXCEPT !.pc = "loop",
                             !.module_names =
                                FilterExcluded(SelectModules(c.profile, c.options),
                                               Get(c.options, "exclude_modules", <<>>))]]
    /\ UNCHANGED <<engine_vars, scans, frames, worker, module_vars>>

\* lines 116-200 of run_scan: one iteration of the loop; the name is skipped,
\* or the progress event is published and the module runs to one of its ends
TaskModule(s) ==
    /\ tasks[s].pc = "loop"
    /\ tasks[s].i <= Len(tasks[s].module_names)
    /\ LET names == tasks[s].module_names
           i == tasks[s].i
           id == tasks[s].message[1].scanId
       IN  tasks' = [tasks EXCEPT ![s] =
              [@ EXCEPT !.i = i + 1,
                        !.published =
                           IF names[i] \in MODULE_REGISTRY
                           THEN Append(@, ProgressEvent(worker, id,
                                             Percent(i - 1, Len(names)),
                                             <<"Running ", names[i], "...">>))
                           ELSE @]]
    /\ UNCHANGED <<engine_vars, scans, frames, worker, module_vars>>

\* line 202 of run_scan and what the worker does with the report
TaskFinish(s) ==
    /\ tasks[s].pc = "loop"
    /\ tasks[s].i > Len(tasks[s].module_names)
    /\ \E serialisable \in BOOLEAN :
          LET id == tasks[s].message[1].scanId
          IN  tasks' = [tasks EXCEPT ![s] =
                 [@ EXCEPT !.pc = "ended",
                           !.published =
                              Append(@, ProgressEvent(worker, id, 100, <<"Scan completed">>))
                              \o CompletionEvents(worker, id, serialisable)]]
    /\ UNCHANGED <<engine_vars, scans, frames, worker, module_vars>>

(***************************************************************************)
(* modules/vuln_checker.py: VulnChecker._test_stored_xss(base_url,         *)
(* endpoints, client) against a site. A URL is <<origin, path>>; the text  *)
(* of a form's attributes and an endpoint are token sequences.             *)
(***************************************************************************)
\* VulnChecker.STORED_XSS_PAYLOADS, by their markers
STORED_XSS_PAYLOADS ==
    <<"STORED_XSS_TEST_1", "STORED_XSS_TEST_2", "STORED_XSS_TEST_3",
      "STORED_XSS_TEST_4", "STORED_XSS_TEST_5">>

\* the forms of the pages, by the method and the action of each; method,
\* action, and the name and type of a field are absent (<<>>) or given
Forms ==
    LET InputField(name, type, value) ==
           [tag |-> "input", name |-> name, type |-> type, value |-> value]
    IN  [comment |->
            [method |-> <<"POST">>, action |-> <<"/comments">>,
             fields |-> <<InputField(<<"csrf">>, <<"hidden">>, "token123"),
                          InputField(<<"comment">>, <<"text">>, ""),
                          InputField(<<>>, <<"text">>, "")>>],
         search |->
            [method |-> <<"GET">>, action |-> <<"/search">>,
             fields |-> <<InputField(<<"q">>, <<"text">>, "")>>],
         posts_search |->
            [method |-> <<"GET">>, action |-> <<"/posts/search">>,
             fields |-> <<InputField(<<"q">>, <<>>, "")>>],
         login |->
            [method |-> <<"post">>, action |-> <<"/login">>,
             fields |-> <<InputField(<<"csrf">>, <<"hidden">>, "token456"),
                          InputField(<<"password">>, <<"password">>, "")>>],
         feedback |->
            [method |-> <<"post">>, action |-> <<>>,
             fields |-> <<[tag |-> "textarea", name |-> <<"message">>,
                           type |-> <<>>, value |-> ""]>>],
         subscribe |->
            [method |-> <<>>, action |-> <<"/subscribe">>,
             fields |-> <<InputField(<<"address">>, <<"EMAIL">>, "")>>]]

\* the forms a page can hold
PageKinds ==
    { <<>>, <<Forms.comment>>, <<Forms.search>>, <<Forms.posts_search>>,
      <<Forms.login>>, <<Forms.feedback>>, <<Forms.subscribe>>,
      <<Forms.search, Forms.comment>>, <<Forms.comment, Forms.comment>>,
      <<Forms.login, Forms.feedback>> }

\* the endpoints argument: nothing, the base page with a query, another page
EndpointLists ==
    { <<>>, << <<"https://victim.test", "", "?", "page=2">> >>,
      << <<"https://victim.test", "/guestbook", "?", "id=7">> >> }

\* the sites: what the start page and the page /guestbook hold
Sites ==
    [start : PageKinds, guestbook : {<<>>, <<Forms.comment>>, <<Forms.feedback>>}]

\* the forms of the page at `url` of the site
FormsAt(site, url) == IF url[2] = "/guestbook" THEN site.guestbook ELSE site.start

\* lines 430-433: pages_to_check
PagesToCheck(base_url, endpoints) ==
    <<base_url>> \o [n \in 1..Len(endpoints) |-> SplitHead(endpoints[n], "?")]

\* str.lower() of the atoms of a form
Lower(atom) ==
    CASE atom = "POST" -> "post" [] atom = "GET" -> "get"
      [] atom = "EMAIL" -> "email" [] OTHER -> atom

\* the text of the attributes of a <form> tag
FormAttrs(form) ==
    (IF form.method = <<>> THEN <<>> ELSE <<"method=">> \o form.method)
    \o (IF form.action = <<>> THEN <<>> ELSE <<"action=">> \o form.action)

\* line 453: "post" in form_attrs.lower(), over the whole attribute text;
\* the atoms that hold the letters post are "post" and "/posts/search"
IsPostForm(form) ==
    \E n \in 1..Len(FormAttrs(form)) :
       Lower(FormAttrs(form)[n]) \in {"post", "/posts/search"}

\* lines 457-462: the action attribute joined to the page, or the page
FormAction(form, page_url) ==
    IF form.action = <<>> THEN page_url ELSE <<page_url[1], form.action[1]>>

\* lines 480-501: the named inputs of type text, search, url, email or none,
\* then the named textareas
TextFields(form) ==
    LET IsText(fd) ==
           /\ fd.tag = "input" /\ fd.name # <<>>
           /\ (IF fd.type = <<>> THEN "text" ELSE Lower(fd.type[1]))
                 \in {"text", "search", "url", "email", ""}
        IsArea(fd) == fd.tag = "textarea" /\ fd.name # <<>>
        names(fs) == [n \in 1..Len(fs) |-> fs[n].name[1]]
    IN  names(SelectSeq(form.fields, IsText)) \o names(SelectSeq(form.fields, IsArea))

\* lines 495-496 and 508-510: form_data for one payload, the hidden fields
\* with their values and every text field with the payload
FormData(form, payload) ==
    LET IsHidden(fd) ==
           /\ fd.tag = "input" /\ fd.name # <<>>
           /\ fd.type # <<>> /\ Lower(fd.type[1]) = "hidden"
        hidden == SelectSeq(form.fields, IsHidden)
        last(nm) == CHOOSE n \in 1..Len(hidden) :
                       /\ hidden[n].name[1] = nm
                       /\ \A m \in (n + 1)..Len(hidden) : hidden[m].name[1] # nm
        hidden_fields ==
           [nm \in {hidden[n].name[1] : n \in 1..Len(hidden)} |-> hidden[last(nm)].value]
    IN  [nm \in Range(TextFields(form)) |-> payload] @@ hidden_fields

\* lines 526-555: the finding
StoredXssFinding(action, form, payload) ==
    [title |-> "Potential Stored XSS", severity |-> "HIGH",
     category |-> "XSS_STORED", affected_component |-> action,
     evidence |-> [action |-> action, fields |-> TextFields(form),
                   payload |-> payload]]

\* the call of _test_stored_xss, lines 426-434
XssCall(site, endpoints) ==
    [pc |-> "page", site |-> site,
     pages_to_check |-> PagesToCheck(<<"https://victim.test", "">>, endpoints),
     p |-> 1, f |-> 1, k |-> 1, seen_pages |-> {}, tested_forms |-> {},
     posts |-> <<>>, last_check |-> <<>>, findings |-> <<>>]

\* lines 436-450 and 563: the next page is fetched, or none is left
XssFetchPage ==
    /\ xss.pc = "page"
    /\ IF xss.p > Len(xss.pages_to_check)
       THEN xss' = [xss EXCEPT !.pc = "returned"]
       ELSE LET page_url == xss.pages_to_check[xss.p]
            IN  IF page_url \in xss.seen_pages
                THEN xss' = [xss EXCEPT !.p = @ + 1]
                ELSE \E got \in {"raises", "404", "200"} :
                        xss' = IF got = "200"
                               THEN [xss EXCEPT !.pc = "form", !.f = 1,
                                                !.seen_pages = @ \cup {page_url}]
                               ELSE [xss EXCEPT !.p = @ + 1,
                                                !.seen_pages = @ \cup {page_url}]
    /\ UNCHANGED <<engine_vars, scans, frames, channel_vars, api>>

\* lines 452-504: the next form of the page is looked at
XssNextForm ==
    /\ xss.pc = "form"
    /\ LET page_url == xss.pages_to_check[xss.p]
           forms == FormsAt(xss.site, page_url)
       IN  IF xss.f > Len(forms)
           THEN xss' = [xss EXCEPT !.pc = "page", !.p = @ + 1]
           ELSE LET form == forms[xss.f]
                    action == FormAction(form, page_url)
                IN  IF ~IsPostForm(form) \/ action \in xss.tested_forms
                    THEN xss' = [xss EXCEPT !.f = @ + 1]
                    ELSE IF TextFields(form) = <<>>
                    THEN xss' = [xss EXCEPT !.f = @ + 1,
                                            !.tested_forms = @ \cup {action}]
                    ELSE xss' = [xss EXCEPT !.pc = "payload", !.k = 1,
                                            !.tested_forms = @ \cup {action}]
    /\ UNCHANGED <<engine_vars, scans, frames, channel_vars, api>>

\* lines 507-558: one payload is POSTed to the form and the page is fetched
\* again; a request that raises ends the turn of that payload
XssSubmitPayload ==
    /\ xss.pc = "payload"
    /\ LET page_url == xss.pages_to_check[xss.p]
           form == FormsAt(xss.site, page_url)[xss.f]
           action == FormAction(form, page_url)
           payload == STORED_XSS_PAYLOADS[xss.k]
           post == [url |-> action, data |-> FormData(form, payload)]
           after == IF xss.k < Len(STORED_XSS_PAYLOADS)
                    THEN [xss EXCEPT !.k = @ + 1, !.posts = Append(@, post)]
                    ELSE [xss EXCEPT !.pc = "form", !.f = @ + 1,
                                     !.posts = Append(@, post)]
       IN  \E posted \in BOOLEAN, refetch \in {"raises", "clean", "has payload"} :
              xss' = IF ~posted THEN after
                     ELSE IF refetch = "raises"
                     THEN [after EXCEPT !.last_check = <<>>]
                     ELSE IF refetch = "clean"
                     THEN [after EXCEPT !.last_check =
                              <<[url |-> page_url, payload |-> payload, found |-> FALSE]>>]
                     ELSE [xss EXCEPT
                              !.pc = "returned", !.posts = Append(@, post),
                              !.last_check =
                                 <<[url |-> page_url, payload |-> payload, found |-> TRUE]>>,
                              !.findings = Append(@, StoredXssFinding(action, form, payload))]
    /\ UNCHANGED <<engine_vars, scans, frames, channel_vars, api>>

(***************************************************************************)
(* modules/api_discovery.py: ApiDiscovery.run(target, options). A URL is   *)
(* the sequence of the parts it is formatted from; the text of a response  *)
(* is given by what the searches of run find in it. The path lists hold    *)
(* some of the paths of the source lists.                                   *)
(***************************************************************************)
API_BASE_PATHS == <<"/rest", "/health">>

OPENAPI_PATHS == <<"/swagger.json">>

REST_RESOURCE_PATHS == <<"/users">>

\* line 227: the paths asked for GraphQL
GraphqlPaths == <<"/graphql", "/graphiql", "/api/graphql">>

\* the target argument, with and without a scheme
ApiTargets == {<<"https://", "api.test">>, <<"api.test">>}

\* options["discovered_assets"]: absent, or a page and a script
ApiOptions ==
    { NoOptions,
      [keys |-> {"discovered_assets"},
       discovered_assets |->
          <<[type |-> "ENDPOINT", value |-> <<"/index.html">>],
            [type |-> "ENDPOINT", value |-> <<"/static/app", ".js">>],
            [type |-> "SUBDOMAIN", value |-> <<"cdn.api.test", ".js">>]>>] }

\* what a request of each step can be answered with: the request raises (a
\* connection error, a timeout), or a response comes; the text of a response
\* is the keywords in it, the paths the OpenAPI pattern finds, the matches of
\* JS_API_PATTERNS and the lines of a robots.txt
Answers(step) ==
    LET Text(words, spec_paths, js_matches, lines) ==
           [words |-> words, spec_paths |-> spec_paths,
            js_matches |-> js_matches, lines |-> lines]
        NoText == Text({}, <<>>, <<>>, <<>>)
        Response(status, content_type, text) ==
           [raises |-> FALSE, status_code |-> status,
            content_type |-> content_type, text |-> text]
        RequestError ==
           [raises |-> TRUE, status_code |-> 0, content_type |-> "", text |-> NoText]
    IN  {RequestError} \cup
        CASE step = "base" ->
               { Response(404, "text/html", NoText),
                 Response(200, "application/json", NoText) }
          [] step = "openapi" ->
               { Response(200, "text/html", NoText),
                 Response(200, "application/json",
                          Text({"swagger", "paths"}, <<"/pets">>, <<>>, <<>>)) }
          [] step = "rest" ->
               { Response(200, "text/html", NoText),
                 Response(401, "text/html", NoText) }
          [] step = "graphql" ->
               { Response(400, "application/json", NoText),
                 Response(200, "application/json",
                          Text({"__schema"}, <<>>, <<>>, <<>>)) }
          [] step = "js" ->
               { Response(404, "text/html", NoText),
                 Response(200, "application/javascript",
                          Text({}, <<>>, << <<"/api/orders">>, <<"/api/orders">>,
                                            <<"https://", "cdn.api.test/v2">> >>, <<>>)) }
          [] step = "robots" ->
               { Response(404, "text/html", NoText),
                 Response(200, "text/plain",
                          Text({}, <<>>, <<>>,
                               << <<"disallow:", "/admin">>, <<"user-agent:", "*">>,
                                  <<"allow:", "/blog">> >>)) }

\* line 97: base_url
BaseUrl(t) == IF t[1] \in {"http://", "https://"} THEN t ELSE <<"https://">> \o t

\* "json" in content_type or "xml" in content_type
IsJsonOrXml(content_type) ==
    content_type \in {"application/json", "application/xml", "text/xml"}

ApiAsset(value, metadata) ==
    [type |-> "API_ENDPOINT", value |-> value, metadata |-> metadata]

\* lines 269-273: the ENDPOINT assets whose value ends in .js, .mjs or .jsx
JsAssets(discovered_assets) ==
    LET IsJs(a) == /\ a.type = "ENDPOINT"
                   /\ a.value[Len(a.value)] \in {".js", ".mjs", ".jsx"}
    IN  SelectSeq(discovered_assets, IsJs)

\* lines 197-201: the first three discovered paths that start with /api,
\* /rest, /v1, /v2 or /v3, in the order the set yields them, or /api
ApiBaseOrders(discovered_endpoints) ==
    LET under == {pth \in discovered_endpoints :
                     Len(pth) = 1 /\ pth[1] \in {"/api", "/rest", "/rest/v1", "/v1"}}
    IN  IF under = {} THEN { << <<"/api">> >> }
        ELSE { sq \in UNION {[1..n -> under] : n \in 1..3} :
                 /\ Len(sq) = IF Cardinality(under) < 3 THEN Cardinality(under) ELSE 3
                 /\ \A a, b \in 1..Len(sq) : a # b => sq[a] # sq[b] }

\* the assets of the spec paths not yet in discovered_endpoints, lines 161-169
RECURSIVE SpecPathAssets(_, _, _)
SpecPathAssets(base_url, spec_paths, discovered_endpoints) ==
    IF spec_paths = <<>> THEN <<>>
    ELSE LET full == base_url \o <<Head(spec_paths)>>
         IN  IF full \in discovered_endpoints
             THEN SpecPathAssets(base_url, Tail(spec_paths), discovered_endpoints)
             ELSE <<ApiAsset(full, [source |-> "openapi_spec"])>>
                  \o SpecPathAssets(base_url, Tail(spec_paths),
                                    discovered_endpoints \cup {full})

\* the assets of the matches not yet in js_endpoints, lines 285-299
RECURSIVE JsMatchAssets(_, _, _)
JsMatchAssets(base_url, matches, js_endpoints) ==
    IF matches = <<>> THEN <<>>
    ELSE LET match == Head(matches)
             full_url == IF match[1] \in {"http://", "https://"} THEN match
                         ELSE base_url \o match
         IN  IF full_url \in js_endpoints
             THEN JsMatchAssets(base_url, Tail(matches), js_endpoints)
             ELSE <<ApiAsset(full_url, [source |-> "javascript"])>>
                  \o JsMatchAssets(base_url, Tail(matches), js_endpoints \cup {full_url})

\* lines 309-321: the assets of the Disallow and Allow lines that name an API
RECURSIVE RobotsAssets(_, _)
RobotsAssets(base_url, lines) ==
    IF lines = <<>> THEN <<>>
    ELSE (IF /\ Head(lines)[1] \in {"disallow:", "allow:"}
             /\ Head(lines)[2] \in {"/admin", "/api", "/graphql"}
          THEN <<ApiAsset(base_url \o <<Head(lines)[2]>>, [source |-> "robots.txt"])>>
          ELSE <<>>)
         \o RobotsAssets(base_url, Tail(lines))

\* the clock of time.time(), which does not run backwards during the call
ClockTimes == 0..1

\* lines 86-98: the call of run
ApiCall(t, options, now) ==
    [pc |-> "base", base_url |-> BaseUrl(t),
     discovered_assets |-> Get(options, "discovered_assets", <<>>),
     start |-> now, i |-> 1, j |-> 1, assets |-> <<>>, findings |-> <<>>,
     errors |-> <<>>, raw_output |-> <<>>, discovered_endpoints |-> {},
     openapi_found |-> <<>>, api_bases |-> <<>>, js_endpoints |-> {},
     requests |-> <<>>, result |-> <<>>]

\* a request of a step is recorded with its answer
Asked(a, step, url, resp) ==
    [a EXCEPT !.requests = Append(@, [step |-> step, url |-> url, resp |-> resp])]

\* the exception of a request leaves the call
OnRequestError_escapes(a) == [a EXCEPT !.pc = "raised"]

\* except Exception: pass (lines 130, 170, 221, 261, 300, 322): the loop goes on
OnRequestError(a) == a

\* raw_output[key] = value
SetRaw(a, key, value) ==
    [a EXCEPT !.raw_output = Append(@, [key |-> key, value |-> value])]

\* lines 108-133
ApiProbeBase ==
    /\ api.pc = "base"
    /\ IF api.i > Len(API_BASE_PATHS)
       THEN api' = [SetRaw(api, "api_base_paths", Cardinality(api.discovered_endpoints))
                       EXCEPT !.pc = "openapi", !.i = 1]
       ELSE \E resp \in Answers("base") :
              LET path == API_BASE_PATHS[api.i]
                  url == api.base_url \o <<path>>
                  a == [Asked(api, "base", url, resp) EXCEPT !.i = @ + 1]
              IN  api' =
                    IF resp.raises THEN OnRequestError(a)
                    ELSE IF /\ resp.status_code < 404
                            /\ \/ IsJsonOrXml(resp.content_type)
                               \/ resp.status_code \in {200, 201, 401, 403}
                    THEN [a EXCEPT
                            !.discovered_endpoints = @ \cup {<<path>>},
                            !.assets = Append(@, ApiAsset(url, [method |-> "GET"]))]
                    ELSE a
    /\ UNCHANGED <<engine_vars, scans, frames, channel_vars, xss>>

\* lines 136-199
ApiProbeOpenapi ==
    /\ api.pc = "openapi"
    /\ IF api.i > Len(OPENAPI_PATHS)
       THEN \E bases \in ApiBaseOrders(api.discovered_endpoints) :
              api' = [SetRaw(api, "openapi_docs", api.openapi_found) EXCEPT
                        !.pc = "rest", !.i = 1, !.j = 1,
                        !.api_bases = [n \in 1..Len(bases) |-> bases[n][1]],
                        !.findings =
                           IF api.openapi_found # <<>>
                           THEN Append(@, [title |-> "OpenAPI/Swagger Documentation Exposed",
                                           severity |-> "LOW",
                                           category |-> "INFO_DISCLOSURE",
                                           affected_component |->
                                              api.base_url \o <<api.openapi_found[1]>>])
                           ELSE @]
       ELSE \E resp \in Answers("openapi") :
              LET path == OPENAPI_PATHS[api.i]
                  url == api.base_url \o <<path>>
                  a == [Asked(api, "openapi", url, resp) EXCEPT !.i = @ + 1]
                  found == SpecPathAssets(api.base_url, resp.text.spec_paths,
                                          api.discovered_endpoints)
              IN  api' =
                    IF resp.raises THEN OnRequestError(a)
                    ELSE IF /\ resp.status_code = 200
                            /\ resp.text.words \cap
                                 {"swagger", "openapi", "paths", "definitions",
                                  "components", "info", "servers"} # {}
                    THEN [a EXCEPT
                            !.openapi_found = Append(@, path),
                            !.discovered_endpoints =
                               @ \cup {found[n].value : n \in 1..Len(found)},
                            !.assets = Append(@, ApiAsset(url, [type |-> "openapi_docs"]))
                                       \o found]
                    ELSE a
    /\ UNCHANGED <<engine_vars, scans, frames, channel_vars, xss>>

\* lines 201-224
ApiProbeRest ==
    /\ api.pc = "rest"
    /\ IF api.i > Len(api.api_bases)
       THEN api' = [SetRaw(api, "rest_endpoints", Cardinality(api.discovered_endpoints))
                       EXCEPT !.pc = "graphql", !.i = 1]
       ELSE \E resp \in Answers("rest") :
              LET api_base == api.api_bases[api.i]
                  resource == REST_RESOURCE_PATHS[api.j]
                  url == api.base_url \o <<api_base, resource>>
                  key == <<api_base, resource>>
                  asked == Asked(api, "rest", url, resp)
                  a == IF api.j < Len(REST_RESOURCE_PATHS)
                       THEN [asked EXCEPT !.j = @ + 1]
                       ELSE [asked EXCEPT !.i = @ + 1, !.j = 1]
              IN  api' =
                    IF resp.raises THEN OnRequestError(a)
                    ELSE IF /\ resp.status_code \in {200, 201, 401, 403}
                            /\ \/ IsJsonOrXml(resp.content_type)
                               \/ resp.status_code \in {401, 403}
                            /\ key \notin api.discovered_endpoints
                    THEN [a EXCEPT
                            !.discovered_endpoints = @ \cup {key},
                            !.assets = Append(@, ApiAsset(url, [api_base |-> api_base]))]
                    ELSE a
    /\ UNCHANGED <<engine_vars, scans, frames, channel_vars, xss>>

\* lines 227-266
ApiProbeGraphql ==
    /\ api.pc = "graphql"
    /\ IF api.i > Len(GraphqlPaths)
       THEN api' = [SetRaw(api, "graphql_found",
                           \E n \in 1..Len(api.assets) :
                              /\ "type" \in DOMAIN api.assets[n].metadata
                              /\ api.assets[n].metadata.type = "graphql")
                       EXCEPT !.pc = "js", !.i = 1]
       ELSE \E resp \in Answers("graphql") :
              LET url == api.base_url \o <<GraphqlPaths[api.i]>>
                  a == [Asked(api, "graphql", url, resp) EXCEPT !.i = @ + 1]
              IN  api' =
                    IF resp.raises THEN OnRequestError(a)
                    ELSE IF resp.status_code = 200 /\ "__schema" \in resp.text.words
                    THEN [a EXCEPT
                            !.i = Len(GraphqlPaths) + 1,
                            !.assets = Append(@, ApiAsset(url, [type |-> "graphql"])),
                            !.findings =
                               Append(@, [title |-> "GraphQL Introspection Enabled",
                                          severity |-> "MEDIUM",
                                          category |-> "INFO_DISCLOSURE",
                                          affected_component |-> url])]
                    ELSE a
    /\ UNCHANGED <<engine_vars, scans, frames, channel_vars, xss>>

\* lines 269-303
ApiFetchJs ==
    /\ api.pc = "js"
    /\ IF api.i > Len(JsAssets(api.discovered_assets))
       THEN api' = [SetRaw(api, "js_extracted_endpoints", Cardinality(api.js_endpoints))
                       EXCEPT !.pc = "robots"]
       ELSE \E resp \in Answers("js") :
              LET js_asset == JsAssets(api.discovered_assets)[api.i]
                  js_url == IF js_asset.value[1] \in {"http://", "https://"}
                            THEN js_asset.value
                            ELSE api.base_url \o js_asset.value
                  a == [Asked(api, "js", js_url, resp) EXCEPT !.i = @ + 1]
                  found == JsMatchAssets(api.base_url, resp.text.js_matches,
                                         api.js_endpoints)
              IN  api' =
                    IF resp.raises THEN OnRequestError(a)
                    ELSE IF resp.status_code = 200
                    THEN [a EXCEPT
                            !.js_endpoints = @ \cup {found[n].value : n \in 1..Len(found)},
                            !.assets = @ \o found]
                    ELSE a
    /\ UNCHANGED <<engine_vars, scans, frames, channel_vars, xss>>

\* lines 306-323
ApiReadRobots ==
    /\ api.pc = "robots"
    /\ \E resp \in Answers("robots") :
          LET url == api.base_url \o <<"/robots.txt">>
              a == [Asked(api, "robots", url, resp) EXCEPT !.pc = "return"]
          IN  api' =
                IF resp.raises THEN OnRequestError(a)
                ELSE IF resp.status_code = 200
                THEN [a EXCEPT !.assets = @ \o RobotsAssets(api.base_url, resp.text.lines)]
                ELSE a
    /\ UNCHANGED <<engine_vars, scans, frames, channel_vars, xss>>

\* lines 331-338
ApiReturn ==
    /\ api.pc = "return"
    /\ \E now \in {t \in ClockTimes : t >= api.start} :
          api' = [api EXCEPT
                    !.pc = "returned",
                    !.result = <<[module_name |-> "api_discovery",
                                  assets |-> api.assets, findings |-> api.findings,
                                  raw_output |-> api.raw_output,
                                  errors |-> api.errors,
                                  duration_seconds |-> now - api.start]>>]
    /\ UNCHANGED <<engine_vars, scans, frames, channel_vars, xss>>

\* ScanEngine(progress_callback): an engine on which run_scan is yet to be called
Init ==
    /\ pc = "idle"
    /\ progress_callback \in BOOLEAN
    /\ target = <<>>
    /\ profile = ""
    /\ opts = NoOptions
    /\ module_names = <<>>
    /\ total_modules = 0
    /\ completed = 0
    /\ all_assets = <<>>
    /\ all_findings = <<>>
    /\ module_results = NoModuleResults
    /\ all_errors = <<>>
    /\ idx = 1
    /\ invocations = <<>>
    /\ outcome = <<>>
    /\ progress = <<>>
    /\ sink_raised = FALSE
    /\ report = <<>>
    /\ raised = <<>>
    /\ faults = 0
    /\ emitted = 0
    /\ executor_jobs = {}
    /\ scans = [s \in ScanIds |-> Queued]
    /\ frames = [s \in ScanIds |-> EmptyFrame]
    /\ xss = [pc |-> "idle"]
    /\ api = [pc |-> "idle"]
    /\ worker = "none"
    /\ tasks = [s \in ScanIds |-> Unsent]

\* the modules of the registry: they are instantiated without arguments, their
\* name and description are constants, and run returns a ModuleResult, raises
\* or is timed out
Next ==
    \/ \E req \in Requests : RunScan(req)
    \/ SkipUnknown
    \/ BeginModule
    \/ ModuleReturns
    \/ ModuleTimesOut
    \/ ModuleRaises
    \/ ExecutorJobEnds
    \/ FinishScan

Spec == Init /\ [][Next]_vars

\* the calls of the smaller specifications: a blocked target, a profile with
\* exclusions (DEEP keeps its unregistered api_security) and a custom list
FewRequests ==
    { [target |-> Render(<<>>, "mixed.example", <<>>, <<>>),
       profile |-> "QUICK", options |-> NoOptions],
      [target |-> ScanTarget, profile |-> "DEEP", options |-> ExcludeMost],
      [target |-> ScanTarget, profile |-> "CUSTOM", options |-> CustomMixed] }

\* any module behind the registry names
NextContract ==
    \/ \E req \in FewRequests : RunScan(req)
    \/ SkipUnknown
    \/ BeginModule
    \/ ModuleReturns
    \/ ModuleTimesOut
    \/ ModuleRaises
    \/ FinishScan
    \/ ModuleSetupRaises
    \/ ModuleReturnsMalformed

SpecContract == Init /\ [][NextContract]_vars

\* the event loop runs the coroutine of run_scan whenever it can take a step,
\* and the timer of wait_for fires
NextFair ==
    \/ \E req \in FewRequests : RunScan(req)
    \/ SkipUnknown
    \/ BeginModule
    \/ ModuleReturns
    \/ ModuleTimesOut
    \/ ModuleRaises
    \/ FinishScan

FairSpec == Init /\ [][NextFair]_vars /\ WF_vars(NextFair)

\* the tasks of a worker, each run by its own call of run_scan
WorkerInit == Init /\ progress_callback = FALSE

NextWorker ==
    \E s \in ScanIds :
       \/ WorkerRunScan(s)
       \/ WorkerBeginModule(s)
       \/ WorkerModuleReturns(s)
       \/ WorkerCollectAssets(s)
       \/ WorkerCollectFindings(s)
       \/ WorkerCollectRest(s)
       \/ WorkerModuleFails(s)
       \/ WorkerFinishScan(s)

SpecWorker == WorkerInit /\ [][NextWorker]_vars

\* a worker process of either kind, before the first task
TasksInit ==
    /\ worker \in WorkerKinds
    /\ xss = [pc |-> "idle"]
    /\ api = [pc |-> "idle"]
    /\ tasks = [s \in ScanIds |-> Unsent]
    /\ pc = "idle"
    /\ progress_callback = TRUE
    /\ target = <<>>
    /\ profile = ""
    /\ opts = NoOptions
    /\ module_names = <<>>
    /\ total_modules = 0
    /\ completed = 0
    /\ all_assets = <<>>
    /\ all_findings = <<>>
    /\ module_results = NoModuleResults
    /\ all_errors = <<>>
    /\ idx = 1
    /\ invocations = <<>>
    /\ outcome = <<>>
    /\ progress = <<>>
    /\ sink_raised = FALSE
    /\ report = <<>>
    /\ raised = <<>>
    /\ faults = 0
    /\ emitted = 0
    /\ executor_jobs = {}
    /\ scans = [s \in ScanIds |-> Queued]
    /\ frames = [s \in ScanIds |-> EmptyFrame]
    /\ xss = [pc |-> "idle"]
    /\ api = [pc |-> "idle"]

NextTasks ==
    \E s \in ScanIds :
       \/ ReceiveTask(s)
       \/ TaskRunScan(s)
       \/ TaskModule(s)
       \/ TaskFinish(s)

SpecTasks == TasksInit /\ [][NextTasks]_vars

\* a caller about to invoke _test_stored_xss on a site
XssInit ==
    /\ \E site \in Sites, endpoints \in EndpointLists : xss = XssCall(site, endpoints)
    /\ api = [pc |-> "idle"]
    /\ worker = "none"
    /\ tasks = [s \in ScanIds |-> Unsent]
    /\ pc = "idle"
    /\ progress_callback = FALSE
    /\ target = <<>>
    /\ profile = ""
    /\ opts = NoOptions
    /\ module_names = <<>>
    /\ total_modules = 0
    /\ completed = 0
    /\ all_assets = <<>>
    /\ all_findings = <<>>
    /\ module_results = NoModuleResults
    /\ all_errors = <<>>
    /\ idx = 1
    /\ invocations = <<>>
    /\ outcome = <<>>
    /\ progress = <<>>
    /\ sink_raised = FALSE
    /\ report = <<>>
    /\ raised = <<>>
    /\ faults = 0
    /\ emitted = 0
    /\ executor_jobs = {}
    /\ scans = [s \in ScanIds |-> Queued]
    /\ frames = [s \in ScanIds |-> EmptyFrame]

NextXss == XssFetchPage \/ XssNextForm \/ XssSubmitPayload

SpecXss == XssInit /\ [][NextXss]_vars

\* a caller about to invoke ApiDiscovery.run
ApiInit ==
    /\ \E t \in ApiTargets, options \in ApiOptions, now \in ClockTimes :
          api = ApiCall(t, options, now)
    /\ xss = [pc |-> "idle"]
    /\ worker = "none"
    /\ tasks = [s \in ScanIds |-> Unsent]
    /\ pc = "idle"
    /\ progress_callback = FALSE
    /\ target = <<>>
    /\ profile = ""
    /\ opts = NoOptions
    /\ module_names = <<>>
    /\ total_modules = 0
    /\ completed = 0
    /\ all_assets = <<>>
    /\ all_findings = <<>>
    /\ module_results = NoModuleResults
    /\ all_errors = <<>>
    /\ idx = 1
    /\ invocations = <<>>
    /\ outcome = <<>>
    /\ progress = <<>>
    /\ sink_raised = FALSE
    /\ report = <<>>
    /\ raised = <<>>
    /\ faults = 0
    /\ emitted = 0
    /\ executor_jobs = {}
    /\ scans = [s \in ScanIds |-> Queued]
    /\ frames = [s \in ScanIds |-> EmptyFrame]

NextApi ==
    \/ ApiProbeBase \/ ApiProbeOpenapi \/ ApiProbeRest \/ ApiProbeGraphql
    \/ ApiFetchJs \/ ApiReadRobots \/ ApiReturn

SpecApi == ApiInit /\ [][NextApi]_vars

(***************************************************************************)
(* _generate_summary on its own: a call with a list of finding dicts.      *)
(***************************************************************************)
\* finding dicts by severity, category and cvssScore: estimated from the
\* category, from the severity (a category the table lacks), explicit scores
\* (0, 5.0, below 0, above 10), a cvssScore that is no number, and a dict
\* without the severity key
ScoredKinds ==
    { [severity |-> "CRITICAL", category |-> "SQL_INJECTION", cvssScore |-> <<>>],
      [severity |-> "INFO", category |-> "WAF_DETECTED", cvssScore |-> <<>>],
      [severity |-> "MEDIUM", category |-> "OTHER", cvssScore |-> <<50>>],
      [severity |-> "HIGH", category |-> "XSS_STORED", cvssScore |-> <<0>>],
      [severity |-> "HIGH", category |-> "MISSING_HEADER", cvssScore |-> <<>>],
      [severity |-> "UNRATED", category |-> "MISSING_HEADER", cvssScore |-> <<>>],
      [severity |-> "LOW", category |-> "SQL_INJECTION", cvssScore |-> <<"str", "9.8">>],
      [severity |-> "MEDIUM", category |-> "SSL_TLS", cvssScore |-> <<-10>>],
      [severity |-> "CRITICAL", category |-> "OUTDATED_SOFTWARE", cvssScore |-> <<120>>],
      [category |-> "CSRF", cvssScore |-> <<>>] }

\* a list of a findings of one kind followed by b findings of another
Repeat(x, a, y, b) == [k \in 1..(a + b) |-> IF k <= a THEN x ELSE y]

ScoredLists ==
    UNION {{Repeat(x, a, y, n - a) : x \in ScoredKinds, y \in ScoredKinds,
                                     a \in 0..n} : n \in 0..MaxFindings}

\* a caller about to pass `all_findings` to _generate_summary
ScoreInit ==
    /\ pc = "summary"
    /\ all_findings \in ScoredLists
    /\ progress_callback = FALSE
    /\ target = <<>>
    /\ profile = ""
    /\ opts = NoOptions
    /\ module_names = <<>>
    /\ total_modules = 0
    /\ completed = 0
    /\ all_assets = <<>>
    /\ module_results = NoModuleResults
    /\ all_errors = <<>>
    /\ idx = 1
    /\ invocations = <<>>
    /\ outcome = <<>>
    /\ progress = <<>>
    /\ sink_raised = FALSE
    /\ report = <<>>
    /\ raised = <<>>
    /\ faults = 0
    /\ emitted = 0
    /\ executor_jobs = {}
    /\ scans = [s \in ScanIds |-> Queued]
    /\ frames = [s \in ScanIds |-> EmptyFrame]
    /\ xss = [pc |-> "idle"]
    /\ api = [pc |-> "idle"]
    /\ worker = "none"
    /\ tasks = [s \in ScanIds |-> Unsent]

\* lines 226-277: summary = self._generate_summary(all_findings)
Summarise ==
    /\ pc = "summary"
    /\ \E ties \in Ties :
          report' = <<[findings |-> all_findings,
                       summary |-> _generate_summary(all_findings, ties)]>>
    /\ pc' = "summarised"
    /\ UNCHANGED <<progress_callback, scan_args, aggregate, idx, invocations,
                   outcome, progress, sink_raised, raised, faults, emitted,
                   executor_jobs, scans, frames, channel_vars, module_vars>>

SpecScore == ScoreInit /\ [][Summarise]_vars

(***************************************************************************)
(* Properties                                                              *)
(***************************************************************************)
Positions == 1..Len(module_names)

Invoked(j) == \E n \in 1..Len(invocations) : invocations[n].pos = j

InvokedNames == [n \in 1..Len(invocations) |-> invocations[n].name]

StatusAt(k) == outcome[k].status

Finished == pc = "done" /\ Len(report) = 1

\* the scan went past the target guard
Scanned == Finished /\ ~_is_blocked_target(target)

\* C1: when the run of the module at position k raises, every registered
\* module at the positions after k is still invoked, and modules_completed of
\* the returned report is the number of modules whose run returned normally.
C1_RaiseDoesNotStopScan ==
    Finished =>
       /\ \A k \in Positions : StatusAt(k) = "RAISED" =>
             \A j \in (k + 1)..Len(module_names) :
                module_names[j] \in MODULE_REGISTRY => Invoked(j)
       /\ report[1].modules_completed =
             Cardinality({k \in Positions : StatusAt(k) = "RETURNED"})

C1_Witness ==
    /\ Finished
    /\ \E k \in Positions : \E j \in (k + 1)..Len(module_names) :
          /\ StatusAt(k) = "RAISED"
          /\ StatusAt(j) = "RETURNED"
          /\ report[1].modules_completed >= 1

\* C2: a module that is timed out adds exactly the one string "Module <name>
\* timed out" to the errors and is not counted as completed; the modules after
\* it are still invoked and the scan goes on to return its report.
C2_TimeoutDoesNotBlock ==
    /\ [][(pc = "running" /\ pc' = "loop" /\ outcome'[idx].status = "TIMED_OUT") =>
            /\ all_errors' = Append(all_errors, <<"Module ", module_names[idx], " timed out">>)
            /\ completed' = completed]_vars
    /\ [](Finished =>
            \A k \in Positions : StatusAt(k) = "TIMED_OUT" =>
               \A j \in (k + 1)..Len(module_names) :
                  module_names[j] \in MODULE_REGISTRY => Invoked(j))
    /\ ((\E k \in Positions : StatusAt(k) = "TIMED_OUT") ~> Finished)

C2_Witness ==
    /\ Finished
    /\ \E k \in Positions : \E j \in (k + 1)..Len(module_names) :
          /\ StatusAt(k) = "TIMED_OUT"
          /\ Invoked(j)
          /\ <<"Module ", module_names[k], " timed out">> \in Range(report[1].errors)

\* line 136: the list a module finds under discovered_assets is the list
\* object all_assets, so it reads what all_assets holds at the time it looks
discovered_assets(inv) == all_assets

\* C3: the list a module at position j is given as discovered_assets holds
\* every asset of the modules that completed before j and never an asset
\* emitted at a position >= j, when it is invoked and at every later point.
C3_AssetVisibilityCausal ==
    \A n \in 1..Len(invocations) :
       "discovered_assets" \in invocations[n].module_opts =>
          LET seen == discovered_assets(invocations[n])
              j == invocations[n].pos
          IN  /\ \A k \in 1..(j - 1) : StatusAt(k) = "RETURNED" =>
                    \A m \in 1..Len(outcome[k].result.assets) :
                       AssetDict(outcome[k].result.assets[m]) \in Range(seen)
              /\ \A m \in 1..Len(seen) : seen[m].metadata.emitted_at < j

\* C4: whatever the modules do (raise when instantiated, when the description
\* is read, in run, or return a malformed value), nothing propagates out of
\* run_scan and a finished scan has returned a report.
C4_NothingPropagates ==
    /\ raised = <<>>
    /\ pc # "raised"

\* the host of a target text and the addresses it stands for
HostOfTarget(t) == CHOOSE h \in Hosts : h \in Range(t)

AddressesOf(h) ==
    IF h \in DOMAIN IpLiterals THEN {h}
    ELSE IF h \in DOMAIN DnsRecords THEN Range(DnsRecords[h])
    ELSE {}

\* the addresses of the model that lie in 10/8, 172.16/12, 192.168/16, 127/8
\* or 169.254/16
AddressesInBlockedRanges == {"10.0.0.5", "192.168.1.10", "127.0.0.1"}

TargetInBlockedRange(t) ==
    AddressesOf(HostOfTarget(t)) \cap AddressesInBlockedRanges # {}

\* C5: for a target whose literal or resolved address lies in a blocked range
\* run_scan returns at once: no module is resolved, instantiated or invoked,
\* and the report has modules_completed = modules_total = 0, no assets, no
\* findings, exactly one error, risk_score 0 and security_score 100.
C5_BlockedTargetShortCircuits ==
    (pc # "idle" /\ TargetInBlockedRange(target)) =>
       /\ Finished
       /\ module_names = <<>> /\ invocations = <<>> /\ progress = <<>>
       /\ report[1].modules_completed = 0
       /\ report[1].modules_total = 0
       /\ report[1].assets = <<>>
       /\ report[1].findings = <<>>
       /\ Len(report[1].errors) = 1
       /\ report[1].summary.risk_score = 0
       /\ report[1].summary.security_score = 100

C5_Witness ==
    /\ Finished
    /\ HostOfTarget(target) = "mixed.example"
    /\ report[1].modules_total = 0
    /\ Len(report[1].errors) = 1

\* the list the profile and the options select, before any filter
SelectedList ==
    IF profile = "CUSTOM" /\ "modules" \in opts.keys /\ opts["modules"] # <<>>
    THEN opts["modules"]
    ELSE IF profile = "QUICK" THEN SCAN_PROFILES["QUICK"]
    ELSE IF profile = "DEEP" THEN SCAN_PROFILES["DEEP"]
    ELSE SCAN_PROFILES["STANDARD"]

ExcludedNames ==
    IF "exclude_modules" \in opts.keys THEN Range(opts["exclude_modules"]) ELSE {}

\* C6: the names run_scan invokes are the selected list (the profile's, or the
\* custom one) without the excluded names, restricted to the registered names,
\* in the list's order; an excluded name is never invoked.
C6_InvokedSequence ==
    LET Runs(m) == m \in MODULE_REGISTRY /\ m \notin ExcludedNames
    IN  /\ Scanned => InvokedNames = SelectSeq(SelectedList, Runs)
        /\ \A n \in 1..Len(invocations) : invocations[n].name \notin ExcludedNames

C6_Witness ==
    /\ Scanned
    /\ profile = "STANDARD"
    /\ ExcludedNames \cap Range(SCAN_PROFILES["STANDARD"]) # {}
    /\ Len(invocations) = 5

\* C7: a name of the resolved sequence that is not in the registry is not
\* invoked, adds nothing to the errors and is counted neither in
\* modules_completed nor in modules_total.
C7_UnknownNotCounted ==
    Scanned =>
       /\ \A k \in Positions : module_names[k] \notin MODULE_REGISTRY =>
             /\ ~Invoked(k)
             /\ \A m \in 1..Len(report[1].errors) :
                   module_names[k] \notin Range(report[1].errors[m])
       /\ report[1].modules_total =
             Cardinality({k \in Positions : module_names[k] \in MODULE_REGISTRY})
       /\ report[1].modules_completed <= report[1].modules_total

\* the error string the engine records for the module at position k
EngineError(k) ==
    IF StatusAt(k) = "TIMED_OUT" THEN <<"Module ", module_names[k], " timed out">>
    ELSE IF outcome[k].exception.class = "asyncio.TimeoutError"
         THEN <<"Module ", module_names[k], " timed out">>
         ELSE <<"Module ", module_names[k], " failed: ", outcome[k].exception.message>>

\* C8: the error of every module that timed out or failed is in the report's
\* errors and in module_results under that module's name, and the modules that
\* succeeded keep their results.
C8_FailureInBothErrorLists ==
    Scanned =>
       \A k \in Positions : StatusAt(k) \in {"TIMED_OUT", "RAISED"} =>
          /\ EngineError(k) \in Range(report[1].errors)
          /\ module_names[k] \in DOMAIN report[1].module_results
          /\ EngineError(k) \in Range(report[1].module_results[module_names[k]].errors)

\* the modules that read discovered_assets from their options to do their work
AssetConsumers ==
    {"default_creds_checker", "subdomain_takeover", "nvd_cve_matcher",
     "admin_detector", "vuln_checker"}

\* C9: every asset-consuming module (credential testing, takeover detection,
\* CVE matching, admin-panel detection, injection testing) is passed the
\* accumulated assets in its options whenever run_scan invokes it.
C9_ConsumersGetAssets ==
    \A n \in 1..Len(invocations) :
       invocations[n].name \in AssetConsumers =>
          "discovered_assets" \in invocations[n].module_opts

\* the accumulators after the modules at positions 1..k, from what the modules
\* did alone
RECURSIVE Accumulated(_)
Accumulated(k) ==
    IF k = 0
    THEN [completed |-> 0, assets |-> <<>>, findings |-> <<>>,
          module_results |-> NoModuleResults, errors |-> <<>>]
    ELSE LET prev == Accumulated(k - 1)
             name == module_names[k]
         IN  IF StatusAt(k) = "RETURNED"
             THEN LET r == outcome[k].result
                  IN  [completed |-> prev.completed + 1,
                       assets |-> prev.assets \o AssetDicts(r.assets),
                       findings |-> prev.findings \o FindingDicts(r.findings),
                       module_results |->
                          (name :> [assets |-> Len(r.assets),
                                    findings |-> Len(r.findings),
                                    errors |-> r.errors]) @@ prev.module_results,
                       errors |-> prev.errors \o r.errors]
             ELSE IF StatusAt(k) \in {"TIMED_OUT", "RAISED"}
                  THEN [prev EXCEPT !.errors = Append(@, EngineError(k))]
                  ELSE prev

\* C10: whichever calls of the progress sink raise, run_scan invokes every
\* module and returns the report that the modules' behaviour alone determines
\* (modules_completed, modules_total, assets, findings, errors,
\* module_results); nothing of the sink's failure is in an errors list and
\* nothing the sink raised escapes run_scan.
C10_SinkFailuresSwallowed ==
    /\ \A n \in 1..Len(raised) : raised[n].from # "progress_callback"
    /\ Scanned =>
          LET acc == Accumulated(Len(module_names))
          IN  /\ \A k \in Positions : module_names[k] \in MODULE_REGISTRY => Invoked(k)
              /\ report[1].modules_completed = acc.completed
              /\ report[1].modules_total = Len(module_names)
              /\ report[1].assets = acc.assets
              /\ report[1].findings = acc.findings
              /\ report[1].errors = acc.errors
              /\ report[1].module_results = acc.module_results

C10_Witness ==
    /\ Scanned
    /\ sink_raised
    /\ Len(progress) >= 3
    /\ report[1].modules_completed >= 2
    /\ report[1].errors # <<>>

\* the terminal states of a module: COMPLETED, TIMED_OUT, FAILED
TerminalStatuses == {"RETURNED", "TIMED_OUT", "RAISED"}

\* what run_scan has recorded under the module name m
RecordedCompleted(m) == m \in DOMAIN module_results

RecordedTimedOut(m) == <<"Module ", m, " timed out">> \in Range(all_errors)

RecordedFailed(m) ==
    \E n \in 1..Len(all_errors) :
       /\ Len(all_errors[n]) = 4
       /\ SubSeq(all_errors[n], 1, 3) = <<"Module ", m, " failed: ">>

\* C11: every module goes PENDING -> RUNNING -> one of COMPLETED, TIMED_OUT,
\* FAILED (the positions before the loop index are terminal, the one at the
\* index is pending or running, the later ones pending); under one module name
\* at most one terminal transition fires in a scan and at most one of
\* completed, timed out, failed is recorded.
C11_OneTerminalStatePerModule ==
    /\ \A k \in 1..Len(outcome) :
          /\ k < idx => StatusAt(k) \in TerminalStatuses \cup {"UNKNOWN"}
          /\ k = idx => StatusAt(k) = (IF pc = "running" THEN "RUNNING" ELSE "PENDING")
          /\ k > idx => StatusAt(k) = "PENDING"
    /\ \A m \in Range(module_names) :
          /\ Cardinality({k \in Positions : /\ module_names[k] = m
                                            /\ StatusAt(k) \in TerminalStatuses}) <= 1
          /\ ~(RecordedCompleted(m) /\ RecordedTimedOut(m))
          /\ ~(RecordedCompleted(m) /\ RecordedFailed(m))
          /\ ~(RecordedTimedOut(m) /\ RecordedFailed(m))

\* the positions of the modules that have work in progress: the one whose run
\* is awaited, and those whose blocking call still runs in an executor thread
WorkInProgress == (IF pc = "running" THEN {idx} ELSE {}) \cup executor_jobs

\* C12: the modules of one scan execute one after the other: at every point of
\* the scan at most one module has work in progress, and when a module is
\* started every module before it has returned, raised or timed out.
C12_ModulesRunSequentially ==
    /\ pc \in {"loop", "running"} => Cardinality(WorkInProgress) <= 1
    /\ \A n \in 1..Len(invocations) : \A k \in 1..(invocations[n].pos - 1) :
          StatusAt(k) \in TerminalStatuses \cup {"UNKNOWN"}

Abs(x) == IF x < 0 THEN -x ELSE x

\* v is an integer nearest to num / den
Nearest(v, num, den) == 2 * Abs(v * den - num) <= den

Summarised == pc = "summarised" /\ Len(report) = 1

\* C13: for every list of findings, with sum the sum of the per-finding scores
\* (in tenths) and n their number: avg_cvss is the mean sum / n (0 for no
\* finding), rounded to a tenth; count_factor is min(n / 5, 3) floored at 1,
\* that is max(min(n, 15), 5) / 5; risk_score is round(min(100, mean * 10 *
\* count_factor)); security_score is max(0, 100 - risk_score); from 15
\* findings on the product is three times mean * 10.
C13_ScoreFormula ==
    Summarised =>
       LET s == report[1].summary
           n == Len(all_findings)
           sum == SeqSum(CvssScores(all_findings))
           den == Max(n, 1) * 5
           num == sum * Max(Min(n, 15), 5)
       IN  /\ Nearest(s.avg_cvss, sum, Max(n, 1))
           /\ n = 0 => s.avg_cvss = 0
           /\ Nearest(s.risk_score, Min(num, 100 * den), den)
           /\ s.security_score = Max(0, 100 - s.risk_score)
           /\ n >= 15 => Nearest(s.risk_score, Min(3 * sum, 100 * n), n)

C13_Witness ==
    /\ Summarised
    /\ Len(all_findings) >= 15
    /\ report[1].summary.risk_score \in 1..99
    /\ report[1].summary.avg_cvss * 2 < report[1].summary.risk_score

\* every finding of the list has the category c and no cvssScore
AllOfCategory(findings, c) ==
    \A k \in 1..Len(findings) :
       findings[k].category = c /\ findings[k].cvssScore = <<>>

\* every finding of the list has the explicit cvssScore v (in tenths)
AllWithScore(findings, v) ==
    \A k \in 1..Len(findings) : findings[k].cvssScore = <<v>>

\* C14: one SQL_INJECTION finding without cvssScore scores risk 98 and
\* security 2; ten WAF_DETECTED findings score risk 0 and security 100; six
\* findings with the explicit cvssScore 5.0 score risk 60 and security 40.
C14_PinnedExamples ==
    Summarised =>
       LET s == report[1].summary
           n == Len(all_findings)
       IN  /\ (n = 1 /\ AllOfCategory(all_findings, "SQL_INJECTION")) =>
                 s.risk_score = 98 /\ s.security_score = 2
           /\ (n = 10 /\ AllOfCategory(all_findings, "WAF_DETECTED")) =>
                 s.risk_score = 0 /\ s.security_score = 100
           /\ (n = 6 /\ AllWithScore(all_findings, 50)) =>
                 s.risk_score = 60 /\ s.security_score = 40

C14_Witness ==
    /\ Summarised
    /\ Len(all_findings) = 6
    /\ AllWithScore(all_findings, 50)
    /\ report[1].summary.risk_score = 60
    /\ report[1].summary.total_findings = 6

\* C15: for every list of findings risk_score and security_score lie in
\* 0..100 and security_score = 100 - risk_score; for the empty list they are
\* 0 and 100.
C15_ScoresInRange ==
    Summarised =>
       LET s == report[1].summary
       IN  /\ s.risk_score \in 0..100
           /\ s.security_score \in 0..100
           /\ s.security_score = 100 - s.risk_score
           /\ all_findings = <<>> => s.risk_score = 0 /\ s.security_score = 100

\* the sum of the values of the mapping f over the keys S
RECURSIVE SumOver(_, _)
SumOver(f, S) ==
    IF S = {} THEN 0
    ELSE LET x == CHOOSE y \in S : TRUE
         IN  f[x] + SumOver(f, S \ {x})

\* C16: in every report run_scan returns, for a blocked target too, the counts
\* of summary.severity_counts add up to summary.total_findings, and that is
\* the length of the report's findings.
C16_SeverityCountsAddUp ==
    Finished =>
       LET s == report[1].summary
       IN  /\ SumOver(s.severity_counts, DOMAIN s.severity_counts) = s.total_findings
           /\ s.total_findings = Len(report[1].findings)

C16_Witness ==
    /\ Scanned
    /\ report[1].summary.total_findings = 2
    /\ report[1].summary.severity_counts["HIGH"] = 2

\* run_scan returned the report of a blocked target
GuardSignalledBlocked ==
    pc = "done" /\ report = <<BlockedReport(target, profile)>>

\* C17: the guard signals blocked whenever the host of the target (the target
\* without URL scheme, port and path) is a literal address in a blocked range
\* or a name with at least one resolved address in a blocked range, whichever
\* place that address has among the resolved ones; it signals not blocked when
\* the literal address, or every resolved address, is outside the ranges.
C17_GuardDecision ==
    pc # "idle" =>
       LET addrs == AddressesOf(HostOfTarget(target))
       IN  /\ addrs \cap AddressesInBlockedRanges # {} => GuardSignalledBlocked
           /\ (addrs # {} /\ addrs \cap AddressesInBlockedRanges = {}) =>
                 ~GuardSignalledBlocked

\* what the modules of one call produced, in the order they ended, with the
\* names they ran under: the accumulation of that call alone
RECURSIVE OwnAccumulation(_, _)
OwnAccumulation(produced, names) ==
    IF produced = <<>> THEN EmptyFrame
    ELSE LET n == Len(produced)
             prev == OwnAccumulation(SubSeq(produced, 1, n - 1), names)
             last == produced[n]
         IN  IF last.status = "RETURNED"
             THEN [completed |-> prev.completed + 1,
                   all_assets |-> prev.all_assets \o AssetDicts(last.result.assets),
                   all_findings |-> prev.all_findings \o FindingDicts(last.result.findings),
                   module_results |->
                      (names[n] :> [assets |-> Len(last.result.assets),
                                    findings |-> Len(last.result.findings),
                                    errors |-> last.result.errors])
                      @@ prev.module_results,
                   all_errors |-> prev.all_errors \o last.result.errors]
             ELSE [prev EXCEPT !.all_errors = @ \o last.errors]

\* the call s went past the guard and returned its report
WorkerScanned(s) == scans[s].pc = "done" /\ scans[s].produced # <<>>

\* C18: when several run_scan calls run side by side, under every
\* interleaving of their steps the report of each holds exactly what its own
\* modules produced: assets, findings, errors, module_results and the
\* completed counter.
C18_ScansAccumulateInIsolation ==
    \A s \in ScanIds :
       WorkerScanned(s) =>
          LET own == OwnAccumulation(scans[s].produced, scans[s].module_names)
              r == scans[s].report[1]
          IN  /\ r.assets = own.all_assets
              /\ r.findings = own.all_findings
              /\ r.errors = own.all_errors
              /\ r.module_results = own.module_results
              /\ r.modules_completed = own.completed

C18_Witness ==
    /\ \A s \in {1, 2} : /\ WorkerScanned(s)
                         /\ scans[s].beside
                         /\ scans[s].report[1].assets # <<>>
    /\ scans[1].report[1].modules_completed = 2
    /\ scans[2].report[1].modules_completed = 1
    /\ scans[2].report[1].errors # <<>>

\* the positions of the modules that reached COMPLETED
CompletedPositions == {k \in Positions : StatusAt(k) = "RETURNED"}

\* C19: the assets and the findings of the report are those of the completed
\* modules, concatenated in the order the modules ran, each module's in the
\* order it emitted them; a module that timed out or failed has nothing in
\* them; module_results has one entry per completed module, and its asset and
\* finding counts are what that module contributed.
C19_ReportIsConcatenation ==
    Scanned =>
       LET acc == Accumulated(Len(module_names))
           r == report[1]
       IN  /\ r.assets = acc.assets
           /\ r.findings = acc.findings
           /\ \A k \in Positions : StatusAt(k) \in {"TIMED_OUT", "RAISED"} =>
                 /\ \A a \in 1..Len(r.assets) : r.assets[a].metadata.emitted_at # k
                 /\ \A f \in 1..Len(r.findings) : r.findings[f].metadata.emitted_at # k
           /\ Cardinality(DOMAIN r.module_results) = Cardinality(CompletedPositions)
           /\ \A k \in CompletedPositions :
                 /\ module_names[k] \in DOMAIN r.module_results
                 /\ r.module_results[module_names[k]].assets =
                       Len(outcome[k].result.assets)
                 /\ r.module_results[module_names[k]].findings =
                       Len(outcome[k].result.findings)

\* the score of a finding by the stated precedence, in tenths
ScoreByPrecedence(f) ==
    IF Len(f.cvssScore) = 1 THEN f.cvssScore[1]
    ELSE IF f.category \in DOMAIN CATEGORY_CVSS THEN CATEGORY_CVSS[f.category]
    ELSE CASE f.severity = "CRITICAL" -> 95
           [] f.severity = "HIGH" -> 75
           [] f.severity = "MEDIUM" -> 50
           [] f.severity = "LOW" -> 25
           [] OTHER -> 0

\* C20: the score the scorer uses for a finding is its explicit numeric
\* cvssScore as it is (0 too); without one, the entry of its category in the
\* category table; only for a category the table lacks, the severity's score
\* (CRITICAL 9.5, HIGH 7.5, MEDIUM 5.0, LOW 2.5, INFO 0.0), and 0.0 for an
\* unrecognised severity. Seen in the summary: max_cvss is the largest of
\* these scores, and for a single finding with a score in 0..10 risk_score is
\* ten times its score.
C20_ScorePrecedence ==
    (Summarised /\ all_findings # <<>>) =>
       LET s == report[1].summary
           expected == [k \in 1..Len(all_findings) |-> ScoreByPrecedence(all_findings[k])]
       IN  /\ s.max_cvss = SeqMax(expected)
           /\ Nearest(s.avg_cvss, SeqSum(expected), Len(expected))
           /\ (Len(all_findings) = 1 /\ expected[1] \in 0..100) =>
                 s.risk_score = expected[1]

C20_Witness ==
    /\ Summarised
    /\ Len(all_findings) = 2
    /\ all_findings[1].cvssScore = <<0>>
    /\ all_findings[1].category \in DOMAIN CATEGORY_CVSS
    /\ all_findings[2].cvssScore = <<>>
    /\ all_findings[2].category \notin DOMAIN CATEGORY_CVSS
    /\ all_findings[2].severity = "HIGH"
    /\ report[1].summary.max_cvss = 75

RunningEvents(started) ==
    [n \in 1..Len(started) |->
        <<((started[n] - 1) * 100) \div total_modules,
          <<"Running ", module_names[started[n]], "...">> >>]

CannotBeResolved(t) ==
    HostOfTarget(t) \notin (DOMAIN IpLiterals \cup DOMAIN DnsRecords)

\* C23: for a target whose host name cannot be resolved the guard raises
\* nothing and does not signal blocked, and run_scan goes on to run the
\* modules of the profile against the target: the scan is in its module loop
\* or has returned a report in which every registered module was invoked.
C23_ResolutionFailureAllowsScan ==
    (pc # "idle" /\ CannotBeResolved(target)) =>
       /\ raised = <<>>
       /\ ~GuardSignalledBlocked
       /\ pc \in {"loop", "running", "done"}
       /\ module_names # <<>>
       /\ Finished => /\ invocations # <<>>
                      /\ \A k \in Positions :
                            module_names[k] \in MODULE_REGISTRY => Invoked(k)
                      /\ report[1].target = target

\* C24: in a worker process, whatever tasks arrive and in whatever order, the
\* number of scans executing at the same time never exceeds
\* max_concurrent_scans.
C24_ConcurrentScansBounded ==
    Cardinality(Executing) <= max_concurrent_scans

\* the task s has a scanId and a target
Accepted(s) ==
    /\ tasks[s].message # <<>>
    /\ {"scanId", "target"} \subseteq tasks[s].message[1].keys

IsTerminalEvent(e) ==
    /\ "status" \in DOMAIN e.payload
    /\ e.payload.status \in {"COMPLETED", "FAILED"}

\* the places of the terminal events among the events published for s
TerminalPlaces(s) ==
    {n \in 1..Len(tasks[s].published) : IsTerminalEvent(tasks[s].published[n])}

\* C25: for every accepted task the worker publishes events of that scanId
\* only, at most one of them terminal (COMPLETED or FAILED, never both) and
\* that one after every progress event; a task whose scan has ended has
\* exactly one. A task without scanId or target starts no scan and has no
\* event.
C25_OneTerminalEventPerTask ==
    \A s \in ScanIds :
       /\ Accepted(s) =>
             /\ \A n \in 1..Len(tasks[s].published) :
                   tasks[s].published[n].payload.scanId = tasks[s].message[1].scanId
             /\ Cardinality(TerminalPlaces(s)) <= 1
             /\ TerminalPlaces(s) \subseteq {Len(tasks[s].published)}
             /\ tasks[s].pc = "ended" <=> Cardinality(TerminalPlaces(s)) = 1
       /\ (tasks[s].message # <<>> /\ ~Accepted(s)) =>
             /\ tasks[s].pc = "dropped"
             /\ tasks[s].call = <<>>
             /\ tasks[s].published = <<>>

C25_Witness ==
    /\ tasks[1].pc = "ended"
    /\ Len(tasks[1].published) = 5
    /\ tasks[1].published[5].payload.status = "COMPLETED"
    /\ tasks[2].pc = "ended"
    /\ Len(tasks[2].published) >= 3
    /\ tasks[2].published[Len(tasks[2].published)].payload.status = "FAILED"

\* the module list a direct run_scan(target, profile, options) call with the
\* fields of the message resolves
DirectModuleList(msg) ==
    FilterExcluded(SelectModules(Get(msg, "profile", "STANDARD"),
                                 Get(msg, "options", NoOptions)),
                   Get(Get(msg, "options", NoOptions), "exclude_modules", <<>>))

\* C26: the options of a task's message are the options argument of the
\* run_scan call the worker makes for it, and the scan runs the module list a
\* direct call with those options runs.
C26_TaskOptionsReachRunScan ==
    \A s \in ScanIds :
       tasks[s].call # <<>> =>
          /\ tasks[s].call[1].options = Get(tasks[s].message[1], "options", NoOptions)
          /\ tasks[s].pc = "loop" =>
                tasks[s].module_names = DirectModuleList(tasks[s].message[1])

\* the method attribute of the form is POST, in any case of letters
SubmitsByPost(form) == form.method # <<>> /\ Lower(form.method[1]) = "post"

\* the forms of the pages that _test_stored_xss is given
FormsChecked ==
    UNION { Range(FormsAt(xss.site, xss.pages_to_check[n])) :
               n \in 1..Len(xss.pages_to_check) }

\* C27: _test_stored_xss reports a finding (HIGH, XSS_STORED) only after it
\* POSTed a payload into the text inputs and textareas of a POST form and the
\* page fetched again held that payload; it returns at most one finding, and
\* for pages with no form or only GET forms it submits nothing and reports
\* nothing.
C27_StoredXssOnlyPostForms ==
    xss.pc # "idle" =>
       /\ Len(xss.findings) <= 1
       /\ \A n \in 1..Len(xss.findings) :
             LET fd == xss.findings[n]
             IN  /\ fd.severity = "HIGH" /\ fd.category = "XSS_STORED"
                 /\ xss.pc = "returned"
                 /\ xss.posts # <<>>
                 /\ xss.posts[Len(xss.posts)].url = fd.affected_component
                 /\ \A nm \in Range(fd.evidence.fields) :
                       xss.posts[Len(xss.posts)].data[nm] = fd.evidence.payload
                 /\ xss.last_check # <<>>
                 /\ xss.last_check[1].found
                 /\ xss.last_check[1].payload = fd.evidence.payload
                 /\ \E form \in FormsChecked : SubmitsByPost(form)
       /\ (\A form \in FormsChecked : ~SubmitsByPost(form))
             => xss.posts = <<>> /\ xss.findings = <<>>

\* what an answered request of run has found: the values of the assets it
\* stands for in the result
FoundBy(req) ==
    LET base_url == api.base_url
        resp == req.resp
    IN  CASE req.step \in {"base", "graphql"} /\ resp.status_code = 200 -> {req.url}
          [] req.step = "rest" /\ resp.status_code = 401 -> {req.url}
          [] req.step = "openapi" /\ "swagger" \in resp.text.words ->
                {req.url} \cup {base_url \o <<resp.text.spec_paths[n]>> :
                                   n \in 1..Len(resp.text.spec_paths)}
          [] req.step = "js" /\ resp.status_code = 200 ->
                {base_url \o <<"/api/orders">>, <<"https://", "cdn.api.test/v2">>}
          [] req.step = "robots" /\ resp.status_code = 200 -> {base_url \o <<"/admin">>}
          [] OTHER -> {}

\* the keys of a raw_output
RawKeys(raw_output) == {raw_output[n].key : n \in 1..Len(raw_output)}

\* C28: ApiDiscovery.run never raises on network errors: whichever of its
\* requests fail, it returns a ModuleResult named api_discovery with a
\* duration that is not negative and the raw_output keys api_base_paths,
\* openapi_docs, rest_endpoints, graphql_found and js_extracted_endpoints,
\* holding what the requests that were answered found.
C28_ApiDiscoveryNeverRaises ==
    /\ api.pc # "raised"
    /\ api.pc = "returned" =>
          LET result == api.result[1]
              values == {result.assets[n].value : n \in 1..Len(result.assets)}
          IN  /\ result.module_name = "api_discovery"
              /\ result.duration_seconds >= 0
              /\ {"api_base_paths", "openapi_docs", "rest_endpoints",
                  "graphql_found", "js_extracted_endpoints"}
                    \subseteq RawKeys(result.raw_output)
              /\ \A n \in 1..Len(api.requests) :
                    ~api.requests[n].resp.raises
                       => FoundBy(api.requests[n]) \subseteq values
              /\ \A v \in values :
                    \E n \in 1..Len(api.requests) :
                       ~api.requests[n].resp.raises /\ v \in FoundBy(api.requests[n])

\* run has returned after some of its requests failed and others found assets
C28_Witness ==
    /\ api.pc = "returned"
    /\ \E n \in 1..Len(api.requests) : api.requests[n].resp.raises
    /\ \E n \in 1..Len(api.requests) :
          api.requests[n].step = "rest" /\ FoundBy(api.requests[n]) # {}
    /\ api.result[1].assets # <<>>

\* run has returned although every request it made failed
C28_AllRequestsFailed ==
    /\ api.pc = "returned"
    /\ api.requests # <<>>
    /\ \A n \in 1..Len(api.requests) : api.requests[n].resp.raises

\* C29: run_scan leaves the options map of its caller as it was: no step of a
\* call changes the map it was given, the maps it holds under the names of
\* modules included, so that no discovered_assets or exclusion key is written
\* into them.
C29_OptionsLeftUnchanged == [][pc # "idle" => opts' = opts]_vars

\* the profile of the call names no list: it is none of the profiles, or it
\* is CUSTOM and the options give no module
FellBack ==
    \/ profile \notin {"QUICK", "STANDARD", "DEEP", "CUSTOM"}
    \/ profile = "CUSTOM" /\ Get(opts, "modules", <<>>) = <<>>

\* CUSTOM with a list of names of which none is registered
OnlyUnregistered ==
    /\ profile = "CUSTOM"
    /\ Get(opts, "modules", <<>>) # <<>>
    /\ Range(Get(opts, "modules", <<>>)) \cap MODULE_REGISTRY = {}

\* the STANDARD list without the excluded names
StandardKept ==
    LET Kept(m) == m \notin ExcludedNames
    IN  SelectSeq(SCAN_PROFILES["STANDARD"], Kept)

\* every module of the scan returned without an error of its own
NoModuleError ==
    \A k \in 1..Len(outcome) :
       /\ outcome[k].status = "RETURNED"
       /\ outcome[k].result.errors = <<>>

\* C30: profile resolution falls back to STANDARD without reporting an error:
\* a profile name that is not QUICK, STANDARD or DEEP, and CUSTOM with an
\* absent or empty modules list, both run the STANDARD list (less the excluded
\* names), whereas CUSTOM with a list of only unregistered names runs nothing.
C30_ProfileFallsBackToStandard ==
    (pc \notin {"idle", "raised"} /\ ~_is_blocked_target(target)) =>
       /\ FellBack =>
             /\ module_names = StandardKept
             /\ (pc = "loop" /\ idx = 1) => all_errors = <<>> /\ raised = <<>>
             /\ Finished =>
                   /\ InvokedNames = StandardKept
                   /\ report[1].modules_total = Len(StandardKept)
                   /\ NoModuleError => report[1].errors = <<>>
       /\ OnlyUnregistered =>
             /\ module_names = <<>>
             /\ invocations = <<>>
             /\ Finished => report[1].modules_total = 0

\* a scan under a profile name that is no profile has run modules
C30_Witness ==
    /\ Finished
    /\ profile = "FULL"
    /\ invocations # <<>>
    /\ NoModuleError

\* CUSTOM scans have finished: without a list, and with unregistered names only
C30_CustomCases ==
    /\ Finished
    /\ profile = "CUSTOM"
    /\ \/ "modules" \notin opts.keys /\ invocations # <<>>
       \/ OnlyUnregistered

====
